---- MODULE Spec2Model ----
(***************************************************************************)
(* Model of the animated eyes engine (lib/eyes.py), of the status ticker   *)
(* (lib/ticker.py), of the display they share (lib/st7789_lcd169.py), of   *)
(* the device main loop (lib/main.py) and of the activity watcher on the   *)
(* host computer (scripts/activity_watcher.py).                            *)
(*                                                                         *)
(* State: `eyes` holds the fields of the Eyes object under their source    *)
(* names (without the leading underscore); its field `trace` lists the     *)
(* methods that acted during the last public call, in order, and its field *)
(* `blink_lid` keeps the eyelid level at which the last blink started      *)
(* (both are instrumentation, the code reads neither).  `now` is the       *)
(* value of time.ticks_ms(), `call` names the last public call, `cmds` and *)
(* `ticks` count the set_expression and update calls made so far, and      *)
(* `host` is what the embedding program does in this behaviour: the        *)
(* intervals between its update calls, the names it sends and how many     *)
(* calls it makes.  The two pixel buffers are                              *)
(* kept by what they show: the gaze offset the base buffer was built with  *)
(* (base_x, base_y), and the gaze offset and eyelid rows of the composited *)
(* buffer (buf_x, buf_y, buf_lid).                                         *)
(*                                                                         *)
(* `ticker` holds the fields of the StatusTicker object, with a `trace`    *)
(* like that of the eyes; `display` is the ST7789 by the calls it received *)
(* during the last public call (`calls`) and the duty of its backlight;    *)
(* `watcher` holds the fields of the ActivityWatcher object, its own clock *)
(* in seconds and the lines it wrote to the serial port; its field `port`  *)
(* says whether the serial device is there and `reached` what the device   *)
(* received last.  `gateway` is the signal writer                          *)
(* (scripts/gateway_signal.py): its clock, what it remembers and the       *)
(* status file.  `serial` is the serial input of the device main loop      *)
(* taken character by character: line_buf, and as instrumentation the      *)
(* characters read and the lines handed to _handle_line.  A behaviour is   *)
(* about the device, about the watcher or about the signal writer: the     *)
(* other parts stay as constructed.                                        *)
(*                                                                         *)
(* The clock is read once per public call: the few reads of ticks_ms()     *)
(* inside one update() are taken to return the same value.                 *)
(***************************************************************************)
EXTENDS Integers, Sequences, FiniteSets, TLC

VARIABLES eyes, now, call, cmds, ticks, host, ticker, display, watcher,
          gateway, serial

vars == <<eyes, now, call, cmds, ticks, host, ticker, display, watcher,
          gateway, serial>>

----------------------------------------------------------------------------
(* Bounds of the model *)

\* the tick counter wraps at 2^TicksBits (2^30 on the device)
TicksBits == 15
\* update calls and set_expression calls in one behaviour of Spec
MaxUpdates == 6
MaxCmds == 1
\* update calls and set_expression calls in one behaviour of SpecSeq
SeqUpdates == 3
SeqCmds == 2
\* update calls and set_expression calls in one behaviour of SpecFaulty
FaultUpdates == 5
FaultCmds == 1
\* update calls and set_expression calls in one behaviour of SpecConfig
ConfigUpdates == 2
ConfigCmds == 1
\* update calls and set_expression calls in one behaviour of SpecRead
ReadUpdates == 26
ReadCmds == 2
\* iterations of the main loop and lines received in one behaviour of SpecLoop
LoopUpdates == 4
LoopCmds == 1
\* handler calls and events (or signals) in one behaviour of SpecWatcher
\* and of SpecSignal
WatchSteps == 4
WatchEvents == 2

\* update calls and set_expression calls in one behaviour of SpecBlink
BlinkUpdates == 8
BlinkCmds == 1

\* iterations of the signal writer's loop and signals written by other
\* programs in one behaviour of SpecGateway
GatewaySteps == 5
GatewayWrites == 1

\* iterations of the main loop in one behaviour of SpecSerial
SerialSteps == 16

\* handlers and events in one behaviour of SpecPort
PortSteps == 4
PortEvents == 2

TicksPeriod == 2 ^ TicksBits

----------------------------------------------------------------------------
(* Constants of lib/eyes.py *)

IDLE == 0
CLOSE_1 == 1
CLOSE_2 == 2
CLOSE_3 == 3
CLOSED == 4

EXPR_NORMAL == 0
EXPR_SLEEPY == 1
EXPR_ASLEEP == 2
EXPR_FOCUSED == 3
EXPR_READING == 4
EXPR_SEARCHING == 5
EXPR_THINKING == 6
EXPR_TERMINAL == 7
EXPR_STRESSED == 8
EXPR_HAPPY == 9

\* cfg.get("eyeHeight", 80)
eye_height == 80
\* cfg.get("eyeWidth", 70)
eye_width == 70
\* cfg.get("cornerRadius", 15)
corner_radius == 15
\* cfg.get("pupilSize", 20)
pupil_size == 20
\* cfg.get("irisSize", 40)
iris_size == 40

----------------------------------------------------------------------------
(* Inputs *)

\* one public call's draws of randint(a, b): a call draws the low end of
\* each range it draws from, or the high end of each
Dice == {"low", "high"}
randint(d, a, b) == IF d = "low" THEN a ELSE b

\* time.ticks_diff(a, b) of MicroPython: the signed difference on the ring
ticks_diff(a, b) ==
    ((a - b + TicksPeriod \div 2) % TicksPeriod) - TicksPeriod \div 2

\* min() and max()
Min(a, b) == IF a < b THEN a ELSE b
Max(a, b) == IF a > b THEN a ELSE b

\* int(): truncation toward zero of n / d
TruncDiv(n, d) == IF n >= 0 THEN n \div d ELSE -((-n) \div d)

\* the configurations the engine is constructed with: the defaults, and a
\* happy face (happySquint, defaultExpression); blinkInterval keeps its default
Configs == { [happySquint |-> 0, defaultExpression |-> "normal",
              blinkInterval |-> <<3000, 6000>>],
             [happySquint |-> 30, defaultExpression |-> "happy",
              blinkInterval |-> <<3000, 6000>>] }

\* names handed to set_expression
Vocabulary == {"normal", "sleepy", "asleep", "focused", "reading", "searching",
               "thinking", "terminal", "stressed", "happy", "done"}
OtherNames == {"quizzical", "ASLEEP", "Sleepy"}
Names == Vocabulary \cup OtherNames
\* names received in "E:" lines
LineNames == OtherNames \cup {"asleep"}

----------------------------------------------------------------------------
(* Helpers of the Eyes object.  Every operator maps the object's state    *)
(* before a method to its state after it; t is the clock value and d the   *)
(* call's random draw.                                                      *)

Did(s, what) == [s EXCEPT !.trace = Append(s.trace, what)]

\* the method `what` acted during the public call that left state s
Acted(s, what) == \E i \in 1..Len(s.trace) : s.trace[i] = what

\* mutant: the horizontal range is one pixel wider than documented
look_at_wide(s, xt, yt) ==
    [Did(s, "look_at") EXCEPT !.pupil_offset_x = TruncDiv(xt * 13, 10),
                              !.pupil_offset_y = TruncDiv(yt * 20, 10)]

look_at(s, xt, yt) ==
    \* x and y arrive in tenths: int(x * 12), int(y * 20)
    [Did(s, "look_at") EXCEPT !.pupil_offset_x = TruncDiv(xt * 12, 10),
                              !.pupil_offset_y = TruncDiv(yt * 20, 10)]

rebuild_base(s) ==
    [Did(s, "_rebuild_base") EXCEPT !.base_x = s.pupil_offset_x,
                                    !.base_y = s.pupil_offset_y]

\* _build_corner_mask: the pixel offsets (row * width + column) outside the
\* rounded corners
corner_mask ==
    LET r == corner_radius
        cut == { c \in (0..(r - 1)) \X (0..(r - 1)) :
                    (r - c[1]) * (r - c[1]) + (r - c[2]) * (r - c[2]) > r * r }
    IN  UNION { { c[2] * eye_width + c[1],
                  c[2] * eye_width + (eye_width - 1 - c[1]),
                  (eye_height - 1 - c[2]) * eye_width + c[1],
                  (eye_height - 1 - c[2]) * eye_width + (eye_width - 1 - c[1]) } :
                c \in cut }

\* the colour _rebuild_base leaves at a pixel offset of _base_buf: white
\* everywhere, then black on the corner mask, then the iris, the pupil and
\* the highlight squares, each painted over what is there
base_buf(s, offset) ==
    LET x == offset % eye_width
        y == offset \div eye_width
        ix == eye_width \div 2 + s.base_x - iris_size \div 2
        iy == eye_height \div 2 + s.base_y - iris_size \div 2
        px == eye_width \div 2 + s.base_x - pupil_size \div 2
        py == eye_height \div 2 + s.base_y - pupil_size \div 2
        hx == px + 4
        hy == py + 4
        within(left, top, size) ==
            x >= left /\ x < left + size /\ y >= top /\ y < top + size
    IN  IF within(hx, hy, 5) THEN "highlight"
        ELSE IF within(px, py, pupil_size) THEN "pupil"
        ELSE IF within(ix, iy, iris_size) THEN "iris"
        ELSE IF offset \in corner_mask THEN "black"
        ELSE "white"

\* len(buf) after buf[start:stop] = src with len(src) = n: the slice is
\* clipped to the buffer, and what it covers is replaced by src
slice_assign_len(len, start, stop, n) ==
    LET lo == Min(start, len)
        hi == Max(lo, Min(stop, len))
    IN  len - (hi - lo) + n

\* len(_eye_buf) after the rows y, y + 1, .. below lid_rows were assigned
\* the black row, one row per step of the loop
RECURSIVE overlay_rows(_, _, _, _)
overlay_rows(len, y, lid_rows, row_len) ==
    IF y >= lid_rows THEN len
    ELSE CHOOSE after \in
            { overlay_rows(grown, y + 1, lid_rows, row_len) :
                grown \in { slice_assign_len(len, y * eye_width * 2,
                                             y * eye_width * 2 + eye_width * 2,
                                             row_len) } } : TRUE

\* the loop over the top lid_rows rows: rows that lie inside the buffer and
\* are assigned as many bytes as they hold leave its length alone
overlay_len(len, lid_rows, row_len) ==
    IF row_len = eye_width * 2 /\ lid_rows * eye_width * 2 <= len
    THEN len
    ELSE overlay_rows(len, 0, lid_rows, row_len)

\* mutant: the composited buffer is a fresh copy of the base buffer
apply_eyelid_copying(s) ==
    [Did(s, "_apply_eyelid") EXCEPT !.buf_x = s.base_x,
                                    !.buf_y = s.base_y,
                                    !.buf_lid = (eye_height * s.eyelid_pct) \div 100,
                                    !.eye_buf_len = s.base_buf_len,
                                    !.objects.eye_buf = 5,
                                    !.prev_lid_pct = s.eyelid_pct]

\* _eye_buf[:] = _base_buf, then the black row over the top lid_rows rows,
\* all by slice assignment into the same bytearray
apply_eyelid(s) ==
    LET composite(e) ==
            LET lid_rows == (eye_height * e.eyelid_pct) \div 100 IN
            [Did(e, "_apply_eyelid") EXCEPT !.buf_x = e.base_x,
                                            !.buf_y = e.base_y,
                                            !.buf_lid = lid_rows,
                                            !.eye_buf_len =
                                                overlay_len(
                                                    slice_assign_len(
                                                        e.eye_buf_len, 0,
                                                        e.eye_buf_len,
                                                        e.base_buf_len),
                                                    lid_rows, e.black_row_len),
                                            !.prev_lid_pct = e.eyelid_pct]
    IN  CHOOSE after \in { composite(e) : e \in {s} } : TRUE

blit_both(s) ==
    [Did(s, "_blit_both") EXCEPT !.prev_offset_x = s.pupil_offset_x,
                                 !.prev_offset_y = s.pupil_offset_y]

draw_eyelids(s) == Did(s, "_draw_eyelids")

draw_closed_line(s) == Did(s, "_draw_closed_line")

----------------------------------------------------------------------------
(* Eyes.__init__ *)

\* buf_size = self.eye_width * self.eye_height * 2
buf_size == eye_width * eye_height * 2

Construct(t, d, squint, dexpr, bi) ==
    LET made ==
            [ happy_squint |-> squint, blink_min |-> bi[1], blink_max |-> bi[2],
              pupil_offset_x |-> 0, pupil_offset_y |-> 0,
              prev_offset_x |-> 0, prev_offset_y |-> 0,
              expression |-> EXPR_NORMAL,
              eyelid_pct |-> 0, target_lid |-> 0, lid_speed |-> 2,
              prev_lid_pct |-> 0,
              base_x |-> 0, base_y |-> 0,
              buf_x |-> 0, buf_y |-> 0, buf_lid |-> 0,
              blink_state |-> IDLE, blink_time |-> 0,
              last_blink |-> t, next_blink |-> randint(d, bi[1], bi[2]),
              idle_mode |-> TRUE, last_move |-> t,
              next_move |-> randint(d, 2000, 4000),
              read_dir |-> 1, read_pos |-> -10, read_speed |-> 200,
              last_read |-> t,
              search_target_x |-> 0, search_target_y |-> 0,
              last_search |-> t, search_speed |-> 300,
              corner_mask_len |-> Cardinality(corner_mask),
              base_buf_len |-> buf_size, eye_buf_len |-> buf_size,
              black_row_len |-> 2 * eye_width,
              objects |-> [corner_mask |-> 1, base_buf |-> 2, eye_buf |-> 3,
                           black_row |-> 4],
              trace |-> <<"_rebuild_base", "_apply_eyelid", "_blit_both">>,
              blink_lid |-> 0 ]
    IN  IF dexpr = "happy" /\ made.happy_squint > 0
        THEN blit_both(apply_eyelid(
                [made EXCEPT !.expression = EXPR_HAPPY,
                             !.target_lid = made.happy_squint,
                             !.eyelid_pct = made.happy_squint]))
        ELSE made

----------------------------------------------------------------------------
(* The configuration read by Eyes.__init__: a dict whose fields may be     *)
(* missing.  A JSON value is kept with its type (int, str or null); a      *)
(* string is the sequence of its characters.                                *)

\* DEFAULT_IRIS = 0x2288FF
DEFAULT_IRIS == 2263295

JsonInt(n) == [kind |-> "int", num |-> n, text |-> <<>>]
JsonStr(chars) == [kind |-> "str", num |-> 0, text |-> chars]
JsonNull == [kind |-> "none", num |-> 0, text |-> <<>>]

\* the dict without fields, and cfg.get(key, default)
NoFields == [k \in {} |-> JsonNull]
get(cfg, key, default) == IF key \in DOMAIN cfg THEN cfg[key] ELSE default

\* what int(s, 16) returns when it raises ValueError
ValueError == -1

\* the value of one hexadecimal digit, or ValueError
hex_digit(c) ==
    LET lower_case == <<"0", "1", "2", "3", "4", "5", "6", "7", "8", "9",
                        "a", "b", "c", "d", "e", "f">>
        upper_case == <<"0", "1", "2", "3", "4", "5", "6", "7", "8", "9",
                        "A", "B", "C", "D", "E", "F">>
        at(digits) == { i \in 1..16 : digits[i] = c }
    IN  IF at(lower_case) # {} THEN (CHOOSE i \in at(lower_case) : TRUE) - 1
        ELSE IF at(upper_case) # {} THEN (CHOOSE i \in at(upper_case) : TRUE) - 1
        ELSE ValueError

RECURSIVE hex_digits(_, _)
hex_digits(chars, acc) ==
    IF chars = <<>> THEN acc
    ELSE IF hex_digit(Head(chars)) = ValueError THEN ValueError
    ELSE hex_digits(Tail(chars), acc * 16 + hex_digit(Head(chars)))

\* int(s, 16): an optional 0x prefix, then one or more hexadecimal digits
int16(chars) ==
    LET body == IF Len(chars) >= 2 /\ chars[1] = "0" /\ chars[2] \in {"x", "X"}
                THEN SubSeq(chars, 3, Len(chars))
                ELSE chars
    IN  IF body = <<>> THEN ValueError ELSE hex_digits(body, 0)

parse_hex(v) ==
    CASE v.kind = "int" -> v.num
      [] v.kind = "str" -> int16(v.text)
      [] OTHER -> DEFAULT_IRIS

\* _to565: the two bytes of the RGB565 colour
to565(color) ==
    LET r == (color \div 65536) % 256
        g == (color \div 256) % 256
        b == color % 256
        c == (r \div 8) * 2048 + (g \div 4) * 32 + b \div 8
    IN  <<c \div 256, c % 256>>

\* the colours __init__ parses: the iris, and the eyebrows when configured
iris_color(cfg) == parse_hex(get(cfg, "irisColor", JsonInt(DEFAULT_IRIS)))
brow_color(cfg) ==
    parse_hex(get(cfg["eyebrows"], "color",
                  JsonStr(<<"0", "x", "F", "F", "F", "F", "F", "F">>)))

\* __init__ raises: a colour string did not parse
init_raises(cfg) ==
    \/ iris_color(cfg) = ValueError
    \/ "eyebrows" \in DOMAIN cfg /\ brow_color(cfg) = ValueError

\* the object __init__ makes from a config: the state of Construct with the
\* parsed colours
init(cfg, t, d) ==
    Construct(t, d, get(cfg, "happySquint", 0),
              get(cfg, "defaultExpression", "normal"),
              get(cfg, "blinkInterval", <<3000, 6000>>))
    @@ [ c_iris |-> to565(iris_color(cfg)),
         has_eyebrows |-> "eyebrows" \in DOMAIN cfg,
         c_brow |-> IF "eyebrows" \in DOMAIN cfg THEN to565(brow_color(cfg))
                    ELSE <<>> ]

\* the configs of the configuration scenario: every field present or
\* missing; colours as int, as well-formed and malformed strings, and null
IrisInputs ==
    { JsonInt(16729156),
      JsonStr(<<"0", "x", "F", "F", "4", "4", "4", "4">>),
      JsonStr(<<"f", "f", "4", "4", "4", "4">>),
      JsonStr(<<"#", "F", "F", "4", "4", "4", "4">>),
      JsonStr(<<>>),
      JsonNull }
BrowInputs ==
    { NoFields,
      "color" :> JsonStr(<<"0", "x", "8", "8", "8", "8", "8", "8">>),
      "color" :> JsonStr(<<"w", "h", "i", "t", "e">>) }
Optional(key, values) == { NoFields } \cup { key :> v : v \in values }
ConfigInputs ==
    { iris @@ brows @@ squint @@ dexpr :
        iris \in Optional("irisColor", IrisInputs),
        brows \in Optional("eyebrows", BrowInputs),
        squint \in Optional("happySquint", {30}),
        dexpr \in Optional("defaultExpression", {"happy"}) }

----------------------------------------------------------------------------
(* Eyes.set_expression: an if/elif chain on the exact string; whatever     *)
(* matches no branch (also "normal" itself) takes the else branch.          *)

\* mutant: a name no branch matches, other than normal, falls into the last
\* elif (happy) instead of the else branch
branch_last_elif(expr) ==
    IF expr \in {"asleep", "sleepy", "focused", "reading", "searching",
                 "thinking", "terminal", "stressed", "done", "happy"}
    THEN expr
    ELSE IF expr = "normal" THEN "else" ELSE "happy"

\* the if/elif chain: the branch a name takes
branch(expr) ==
    IF expr \in {"asleep", "sleepy", "focused", "reading", "searching",
                 "thinking", "terminal", "stressed", "done", "happy"}
    THEN expr
    ELSE "else"

\* mutant: the branch forgets to assign _target_lid
retarget_without_target(s, e, target, speed) ==
    [s EXCEPT !.expression = e, !.lid_speed = speed]

\* mutant: the branch also snaps the eyelid to the target, as __init__ does
retarget_snaps_lid(s, e, target, speed) ==
    [s EXCEPT !.expression = e, !.target_lid = target, !.lid_speed = speed,
              !.eyelid_pct = target]

\* mutant: a new expression also cancels the blink in progress
retarget_cancels_blink(s, e, target, speed) ==
    [s EXCEPT !.expression = e, !.target_lid = target, !.lid_speed = speed,
              !.blink_state = IDLE]

\* the assignments every branch starts with
retarget(s, e, target, speed) ==
    [s EXCEPT !.expression = e, !.target_lid = target, !.lid_speed = speed]

\* the "done" and else branches: the happy squint when one is configured
squint_or_normal(s, speed) ==
    IF s.happy_squint > 0
    THEN retarget(s, EXPR_HAPPY, s.happy_squint, speed)
    ELSE retarget(s, EXPR_NORMAL, 0, speed)

set_expression(s, d, expr) ==
    LET br == branch(expr) IN
    CASE br = "asleep"    -> look_at(retarget(s, EXPR_ASLEEP, 100, 1), 0, 10)
      [] br = "sleepy"    -> look_at(retarget(s, EXPR_SLEEPY, 45, 1), 0, 10)
      [] br = "focused"   -> [look_at(retarget(s, EXPR_FOCUSED, 25, 2), 0, 1)
                                EXCEPT !.next_blink = randint(d, 5000, 10000)]
      [] br = "reading"   -> [retarget(s, EXPR_READING, 10, 2)
                                EXCEPT !.read_pos = -10, !.read_dir = 1,
                                       !.last_read = now]
      [] br = "searching" -> [retarget(s, EXPR_SEARCHING, 0, 3)
                                EXCEPT !.last_search = now,
                                       !.next_blink = randint(d, 2000, 4000)]
      [] br = "thinking"  -> [look_at(retarget(s, EXPR_THINKING, 0, 2), 3, -8)
                                EXCEPT !.next_blink = randint(d, 4000, 8000)]
      [] br = "terminal"  -> [look_at(retarget(s, EXPR_TERMINAL, 20, 2), 0, 0)
                                EXCEPT !.next_blink = randint(d, 6000, 12000)]
      [] br = "stressed"  -> [retarget(s, EXPR_STRESSED, 0, 3)
                                EXCEPT !.next_blink = randint(d, 1500, 3000)]
      [] br = "done"      -> look_at(squint_or_normal(s, 3), 0, 2)
      [] br = "happy"     -> retarget(s, EXPR_HAPPY, s.happy_squint, 2)
      [] OTHER            -> squint_or_normal(s, 3)

----------------------------------------------------------------------------
(* The blink state machine *)

\* mutant: the blink is driven through the eyelid target
start_blink_by_target(s, t) ==
    draw_eyelids([Did(s, "_start_blink") EXCEPT !.blink_state = CLOSE_1,
                                                !.blink_time = t,
                                                !.blink_lid = s.eyelid_pct,
                                                !.target_lid = 100,
                                                !.lid_speed = 3])

start_blink(s, t) ==
    draw_eyelids([Did(s, "_start_blink") EXCEPT !.blink_state = CLOSE_1,
                                                !.blink_time = t,
                                                !.blink_lid = s.eyelid_pct])

\* mutant: the blink closes the persistent eyelid and reopening resets it
update_blink_moves_lid(s, t, d) ==
    LET elapsed == ticks_diff(t, s.blink_time)
        step(to) == [draw_eyelids(s) EXCEPT !.blink_state = to, !.blink_time = t]
    IN
    CASE s.blink_state = IDLE -> s
      [] s.blink_state \in {CLOSE_1, CLOSE_2} ->
            IF elapsed >= 15 THEN step(s.blink_state + 1) ELSE s
      [] s.blink_state = CLOSE_3 ->
            IF elapsed >= 15
            THEN [draw_closed_line(Did(s, "fill_rect"))
                    EXCEPT !.blink_state = CLOSED, !.blink_time = t,
                           !.eyelid_pct = 100]
            ELSE s
      [] s.blink_state = CLOSED ->
            IF elapsed >= 60
            THEN [blit_both(s)
                    EXCEPT !.blink_state = IDLE, !.last_blink = t,
                           !.eyelid_pct = 0,
                           !.next_blink = randint(d, s.blink_min, s.blink_max)]
            ELSE s

\* mutant: the stage follows the time elapsed, so a long gap skips stages
update_blink_catch_up(s, t, d) ==
    LET elapsed == ticks_diff(t, s.blink_time)
        stage == Min(CLOSED, s.blink_state + elapsed \div 15)
    IN  IF s.blink_state = IDLE \/ elapsed < 15
        THEN s
        ELSE IF s.blink_state = CLOSED
             THEN [blit_both(s) EXCEPT !.blink_state = IDLE, !.last_blink = t,
                                       !.next_blink = randint(d, s.blink_min, s.blink_max)]
             ELSE [draw_eyelids(s) EXCEPT !.blink_state = stage, !.blink_time = t]

\* mutant: the completion of a blink is not timed
update_blink_untimed(s, t, d) ==
    LET elapsed == ticks_diff(t, s.blink_time)
        step(to) == [draw_eyelids(s) EXCEPT !.blink_state = to, !.blink_time = t]
    IN
    CASE s.blink_state = IDLE -> s
      [] s.blink_state \in {CLOSE_1, CLOSE_2} ->
            IF elapsed >= 15 THEN step(s.blink_state + 1) ELSE s
      [] s.blink_state = CLOSE_3 ->
            IF elapsed >= 15
            THEN [draw_closed_line(Did(s, "fill_rect"))
                    EXCEPT !.blink_state = CLOSED, !.blink_time = t]
            ELSE s
      [] s.blink_state = CLOSED ->
            IF elapsed >= 60
            THEN [blit_both(s)
                    EXCEPT !.blink_state = IDLE,
                           !.next_blink =
                               IF s.expression = EXPR_SLEEPY
                               THEN randint(d, 6000, 12000)
                               ELSE randint(d, s.blink_min, s.blink_max)]
            ELSE s

\* the state _update_blink leaves; update() goes on to the later stages
\* when that state is IDLE (return self._blink_state != _IDLE)
update_blink(s, t, d) ==
    LET elapsed == ticks_diff(t, s.blink_time)
        step(to) == [draw_eyelids(s) EXCEPT !.blink_state = to, !.blink_time = t]
    IN
    CASE s.blink_state = IDLE -> s
      [] s.blink_state = CLOSE_1 -> IF elapsed >= 15 THEN step(CLOSE_2) ELSE s
      [] s.blink_state = CLOSE_2 -> IF elapsed >= 15 THEN step(CLOSE_3) ELSE s
      [] s.blink_state = CLOSE_3 ->
            IF elapsed >= 15
            THEN [draw_closed_line(Did(s, "fill_rect"))
                    EXCEPT !.blink_state = CLOSED, !.blink_time = t]
            ELSE s
      [] s.blink_state = CLOSED ->
            IF elapsed >= 60
            THEN [blit_both(s)
                    EXCEPT !.blink_state = IDLE,
                           !.last_blink = t,
                           !.next_blink =
                               IF s.expression = EXPR_SLEEPY
                               THEN randint(d, 6000, 12000)
                               ELSE randint(d, s.blink_min, s.blink_max)]
            ELSE s

----------------------------------------------------------------------------
(* The eyelid easing step; update() returns after it when the level moved  *)

\* mutant: the step is not clamped at the target
update_eyelid_unclamped(s) ==
    IF s.eyelid_pct = s.target_lid
    THEN s
    ELSE LET pct == IF s.eyelid_pct < s.target_lid
                    THEN s.eyelid_pct + s.lid_speed
                    ELSE s.eyelid_pct - s.lid_speed
         IN  blit_both(apply_eyelid(
                [Did(s, "_update_eyelid") EXCEPT !.eyelid_pct = pct]))

\* mutant: the step only closes the eye, a level above the target stays
update_eyelid_closing_only(s) ==
    IF s.eyelid_pct >= s.target_lid
    THEN s
    ELSE LET pct == Min(s.eyelid_pct + s.lid_speed, s.target_lid)
             shown == blit_both(apply_eyelid(
                         [Did(s, "_update_eyelid") EXCEPT !.eyelid_pct = pct]))
         IN  IF pct >= 100 THEN draw_closed_line(shown) ELSE shown

update_eyelid(s) ==
    IF s.eyelid_pct = s.target_lid
    THEN s
    ELSE LET pct == IF s.eyelid_pct < s.target_lid
                    THEN Min(s.eyelid_pct + s.lid_speed, s.target_lid)
                    ELSE Max(s.eyelid_pct - s.lid_speed, s.target_lid)
             shown == blit_both(apply_eyelid(
                         [Did(s, "_update_eyelid") EXCEPT !.eyelid_pct = pct]))
         IN  IF pct >= 100 THEN draw_closed_line(shown) ELSE shown

\* mutant: no dirty check, the gaze stage redraws in every tick
update_pupils_always(s) == blit_both(apply_eyelid(rebuild_base(s)))

update_pupils(s) ==
    IF s.pupil_offset_x = s.prev_offset_x /\ s.pupil_offset_y = s.prev_offset_y
    THEN s
    ELSE blit_both(apply_eyelid(rebuild_base(s)))

----------------------------------------------------------------------------
(* The gaze routines of the expressions *)

\* mutant: the sweep does not turn at the right-hand bound
update_reading_no_turn(s, t) ==
    IF ticks_diff(t, s.last_read) < s.read_speed
    THEN s
    ELSE LET pos == s.read_pos + s.read_dir * 2
             turned == IF pos <= -10
                       THEN [s EXCEPT !.read_dir = 1, !.read_speed = 200]
                       ELSE s
         IN  look_at([turned EXCEPT !.last_read = t, !.read_pos = pos], pos, 1)

update_reading(s, t) ==
    IF ticks_diff(t, s.last_read) < s.read_speed
    THEN s
    ELSE LET pos == s.read_pos + s.read_dir * 2
             turned == IF pos >= 10
                       THEN [s EXCEPT !.read_dir = -1, !.read_speed = 80]
                       ELSE IF pos <= -10
                            THEN [s EXCEPT !.read_dir = 1, !.read_speed = 200]
                            ELSE s
         IN  look_at([turned EXCEPT !.last_read = t, !.read_pos = pos], pos, 1)

update_searching(s, t, d) ==
    IF ticks_diff(t, s.last_search) < s.search_speed
    THEN s
    ELSE LET x == randint(d, -8, 8)
             y == randint(d, -4, 4)
         IN  [look_at([s EXCEPT !.last_search = t,
                                !.search_target_x = x,
                                !.search_target_y = y], x, y)
                EXCEPT !.search_speed = randint(d, 200, 600)]

update_thinking(s, t, d) ==
    IF ticks_diff(t, s.last_move) > 3000
    THEN [look_at(s, randint(d, 1, 5), randint(d, -10, -5)) EXCEPT !.last_move = t]
    ELSE s

update_stressed(s, t, d) ==
    IF ticks_diff(t, s.last_move) > 1500
    THEN [look_at(s, randint(d, -6, 6), randint(d, -3, 3)) EXCEPT !.last_move = t]
    ELSE s

\* the expression-specific branch of update()
animate(s, t, d) ==
    CASE s.expression = EXPR_READING   -> update_reading(s, t)
      [] s.expression = EXPR_SEARCHING -> update_searching(s, t, d)
      [] s.expression = EXPR_THINKING  -> update_thinking(s, t, d)
      [] s.expression = EXPR_STRESSED  -> update_stressed(s, t, d)
      [] s.expression \in {EXPR_FOCUSED, EXPR_TERMINAL} ->
            IF ticks_diff(t, s.last_move) > 1500
            THEN [look_at(s, randint(d, -6, 6), randint(d, -2, 3))
                    EXCEPT !.last_move = t]
            ELSE s
      [] s.expression = EXPR_SLEEPY ->
            IF ticks_diff(t, s.last_move) > s.next_move
            THEN [look_at(s, randint(d, -2, 2), 10)
                    EXCEPT !.next_move = randint(d, 4000, 8000), !.last_move = t]
            ELSE s
      [] s.expression = EXPR_HAPPY ->
            IF ticks_diff(t, s.last_move) > s.next_move
            THEN [look_at(s, randint(d, -6, 6), randint(d, -3, 3))
                    EXCEPT !.next_move = randint(d, 3000, 6000), !.last_move = t]
            ELSE s
      [] OTHER ->
            IF s.idle_mode /\ ticks_diff(t, s.last_move) > s.next_move
            THEN \* look_random
                 [look_at(s, randint(d, -10, 10), randint(d, -5, 5))
                    EXCEPT !.next_move = randint(d, 2000, 4000), !.last_move = t]
            ELSE s

----------------------------------------------------------------------------
(* Eyes.update: blink, then eyelid, then gaze *)

\* mutant: no early return for the fully closed, sleeping eyes
after_blink_no_sleep_return(b, t, d) ==
    IF b.blink_state # IDLE THEN b
    ELSE IF b.eyelid_pct # b.target_lid THEN update_eyelid(b)
    ELSE IF ticks_diff(t, b.last_blink) > b.next_blink THEN start_blink(b, t)
    ELSE update_pupils(animate(b, t, d))

\* mutant: the sleeping eyes keep the blink timer fresh
after_blink_asleep_keeps_time(b, t, d) ==
    IF b.blink_state # IDLE THEN b
    ELSE IF b.eyelid_pct # b.target_lid THEN update_eyelid(b)
    ELSE IF b.expression = EXPR_ASLEEP /\ b.eyelid_pct >= 100
         THEN [b EXCEPT !.last_blink = t]
    ELSE IF ticks_diff(t, b.last_blink) > b.next_blink THEN start_blink(b, t)
    ELSE update_pupils(animate(b, t, d))

\* what update() does once _update_blink has returned, leaving state b
after_blink(b, t, d) ==
    IF b.blink_state # IDLE THEN b
    ELSE IF b.eyelid_pct # b.target_lid THEN update_eyelid(b)
    ELSE IF b.expression = EXPR_ASLEEP /\ b.eyelid_pct >= 100 THEN b
    ELSE IF ticks_diff(t, b.last_blink) > b.next_blink THEN start_blink(b, t)
    ELSE update_pupils(animate(b, t, d))

update(s, t, d) ==
    after_blink(update_blink([s EXCEPT !.trace = <<>>], t, d), t, d)

----------------------------------------------------------------------------
(* Eyes.update when the display raises: the state the object is left in    *)
(* when the first display write of the call (fill_rect, set_window or      *)
(* write_data) raises and the exception leaves update().  What the method   *)
(* assigned before the write stays, what it assigns after it is not done.   *)

raised(s) == Did(s, "raise")

\* _update_blink: every stage writes before it assigns
update_blink_raising(s, t) ==
    LET elapsed == ticks_diff(t, s.blink_time) IN
    IF \/ s.blink_state \in {CLOSE_1, CLOSE_2, CLOSE_3} /\ elapsed >= 15
       \/ s.blink_state = CLOSED /\ elapsed >= 60
    THEN raised(s)
    ELSE s

\* the stages after _update_blink: _update_eyelid has stepped the level and
\* composed the buffer, _start_blink has set the state and the time, and
\* update_pupils has rebuilt and composed, when the write raises
after_blink_raising(b, t, d) ==
    IF Acted(b, "raise") \/ b.blink_state # IDLE THEN b
    ELSE IF b.eyelid_pct # b.target_lid
    THEN LET pct == IF b.eyelid_pct < b.target_lid
                    THEN Min(b.eyelid_pct + b.lid_speed, b.target_lid)
                    ELSE Max(b.eyelid_pct - b.lid_speed, b.target_lid)
         IN  raised(apply_eyelid([Did(b, "_update_eyelid") EXCEPT !.eyelid_pct = pct]))
    ELSE IF b.expression = EXPR_ASLEEP /\ b.eyelid_pct >= 100 THEN b
    ELSE IF ticks_diff(t, b.last_blink) > b.next_blink
    THEN raised([Did(b, "_start_blink") EXCEPT !.blink_state = CLOSE_1,
                                               !.blink_time = t,
                                               !.blink_lid = b.eyelid_pct])
    ELSE LET a == animate(b, t, d) IN
         IF a.pupil_offset_x = a.prev_offset_x /\ a.pupil_offset_y = a.prev_offset_y
         THEN a
         ELSE raised(apply_eyelid(rebuild_base(a)))

update_raising(s, t, d) ==
    after_blink_raising(update_blink_raising([s EXCEPT !.trace = <<>>], t), t, d)

----------------------------------------------------------------------------
(* lib/main.py, _handle_line: "E:<name>" strips and lower-cases the name    *)

\* mutant: the name is handed on as received
lower_missing(name) == name

\* str.lower() on the names the model sends
lower(name) ==
    CASE name = "ASLEEP" -> "asleep"
      [] name = "Sleepy" -> "sleepy"
      [] OTHER -> name

----------------------------------------------------------------------------
(* lib/st7789_lcd169.py: the display, by the calls it receives.  A call is *)
(* kept with the component that made it; the run of write_data calls that  *)
(* sends the rows of one rectangle is kept as one write_data.               *)

set_window(who) == <<who, "set_window">>
write_data(who) == <<who, "write_data">>

\* fill_rect with a positive width and height: the window, then the rows
fill_rect(who) == <<set_window(who), write_data(who)>>

\* backlight(on): full duty or none
backlight(b, on) == [b EXCEPT !.duty = IF on THEN 65535 ELSE 0]

\* brightness(pct): the duty of pct clamped to 0..100
brightness(b, pct) == [b EXCEPT !.duty = (65535 * Max(0, Min(100, pct))) \div 100]

\* the display after ST7789(): backlight on, nothing written by a component
ST7789 == [calls |-> <<>>, duty |-> 65535]

\* the display received the calls `made`, after those of this step so far
received(b, made) == [b EXCEPT !.calls = b.calls \o made]

\* mutant: _blit_eye addresses the window and leaves the buffer unsent
blit_eye_window_only == <<set_window("eyes")>>

\* _blit_eye: set_window, write_data(_eye_buf)
blit_eye == <<set_window("eyes"), write_data("eyes")>>

\* the display calls of a method of the Eyes object named in its trace
\* (eyebrows and crow's feet are off in the default configuration)
eyes_calls(what) ==
    CASE what = "_blit_both" -> blit_eye \o blit_eye
      [] what = "_draw_eyelids" ->
            fill_rect("eyes") \o fill_rect("eyes") \o fill_rect("eyes")
                \o fill_rect("eyes")
      [] what = "fill_rect" -> fill_rect("eyes") \o fill_rect("eyes")
      [] what = "_draw_closed_line" -> fill_rect("eyes") \o fill_rect("eyes")
      [] OTHER -> <<>>

----------------------------------------------------------------------------
(* lib/ticker.py: the status ticker.  A text is kept as a string; len,     *)
(* strip, lstrip and the cut to 41 characters are given for the texts the   *)
(* model sends.                                                              *)

\* display.width
dw == 240
\* WIDTH of lib/font16 (self.ch_w = WIDTH, 12)
ch_w == 12
\* max_chars = 41
max_chars == 41

\* the texts of "S:" lines
ShortText == "Hi"
LedText == " Hi"
PaddedText == "Standing by...           "
StrippedText == "Standing by..."
SnoreText == "Zzzz  Zzzzz  Zzzz  Zzzzzzz  Zzzzz"
LongText == "Checking the calendar for upcoming meetings..."
CutText == "Checking the calendar for upcoming meetings"
BlankText == "  "
\* a status line that was not cleared from line_buf, and the line after it
GluedText == "HiE:asleep"

\* len(text)
len(text) ==
    CASE text = "" -> 0
      [] text = BlankText -> 2
      [] text = ShortText -> 2
      [] text = LedText -> 3
      [] text = GluedText -> 10
      [] text = StrippedText -> 14
      [] text = PaddedText -> 25
      [] text = SnoreText -> 33
      [] text = CutText -> 41
      [] text = LongText -> 46

\* text.strip(): of the texts above, the blank, the led and the padded one
\* have white space to lose; a name of an "E:" line loses its spaces too
strip(text) ==
    CASE text = BlankText -> ""
      [] text = LedText -> ShortText
      [] text = PaddedText -> StrippedText
      [] text = " asleep" -> "asleep"
      [] text = "Sleepy " -> "Sleepy"
      [] OTHER -> text

\* text.lstrip()
lstrip(text) ==
    CASE text = BlankText -> ""
      [] text = LedText -> ShortText
      [] OTHER -> text

\* text[:41]
first_41(text) == IF text = LongText THEN CutText ELSE text

\* _set_color: the two bytes of the RGB565 colour
set_color_bytes(k, color) == [k EXCEPT !.hi_lo = to565(color)]

\* _blit: the full-width row of the ticker
ticker_blit(k) == Did(k, "_blit")

\* _clear: zero the display buffer, blit
ticker_clear(k) == ticker_blit(Did(k, "_clear"))

\* _prerender: the characters in the current colour
prerender(k) == [Did(k, "_prerender") EXCEPT !.rendered = k.hi_lo]

\* _window: every branch copies or zeroes the display buffer and blits it
window(k) == ticker_blit(Did(k, "_window"))

\* StatusTicker(display, color=color)
StatusTicker(color) ==
    ticker_clear(set_color_bytes(
        [ text |-> "", hi_lo |-> <<0, 0>>, rendered |-> <<0, 0>>,
          icon_w |-> 0, full_buf |-> "None", full_w |-> 0,
          scroll_x |-> 0, scroll_pause |-> 0, last_scroll |-> 0,
          scroll_speed |-> 30, scroll_step |-> 3,
          needs_scroll |-> FALSE, force_scroll |-> FALSE,
          trace |-> <<>> ], color))

\* set_color: the colour, and the text rendered again when there is one
set_color(k, color) ==
    LET c == set_color_bytes(Did(k, "set_color"), color) IN
    IF c.text # "" THEN prerender(c) ELSE c

\* set_text
set_text(k, t, text) ==
    LET s == [Did(k, "set_text") EXCEPT !.text = strip(text)] IN
    IF s.text = ""
    THEN ticker_clear([s EXCEPT !.full_buf = "None", !.full_w = 0])
    ELSE LET text_dw == dw - s.icon_w
             cut == [s EXCEPT !.needs_scroll =
                                 s.force_scroll \/ len(s.text) * ch_w > text_dw,
                              !.text = IF len(s.text) > max_chars
                                       THEN first_41(s.text) ELSE s.text]
             sized == [cut EXCEPT !.full_w = len(cut.text) * ch_w,
                                  !.full_buf = "fixed"]
         IN  window([prerender(sized) EXCEPT !.scroll_x = 0,
                                             !.scroll_pause = 2000,
                                             !.last_scroll = t])

\* StatusTicker.update: the scroll step
ticker_update(k, t) ==
    LET elapsed == ticks_diff(t, k.last_scroll) IN
    IF ~k.needs_scroll \/ k.text = "" THEN k
    ELSE IF k.scroll_pause > 0
    THEN IF elapsed < k.scroll_pause THEN k
         ELSE [k EXCEPT !.scroll_pause = 0, !.last_scroll = t]
    ELSE IF elapsed < k.scroll_speed THEN k
    ELSE LET x == k.scroll_x + k.scroll_step
             text_dw == dw - k.icon_w
         IN  [window([Did(k, "update") EXCEPT
                        !.scroll_x = IF x > k.full_w + 40 THEN -text_dw ELSE x])
                EXCEPT !.last_scroll = t]

\* the display calls of a method of the ticker named in its trace
ticker_calls(what) ==
    IF what = "_blit"
    THEN <<set_window("ticker"), write_data("ticker")>>
    ELSE <<>>

\* the display calls of the methods of a component (the eyes or the ticker)
\* that acted, in the order they acted
RECURSIVE calls_of(_, _)
calls_of(who, trace) ==
    IF trace = <<>> THEN <<>>
    ELSE (IF who = "eyes" THEN eyes_calls(Head(trace))
          ELSE ticker_calls(Head(trace))) \o calls_of(who, Tail(trace))

\* run(): the colour of the ticker for an expression name
ticker_colors(expr) ==
    CASE expr = "waiting" -> 8947848
      [] expr \in {"idle", "sleepy"} -> 2263295
      [] expr = "asleep" -> 1131656
      [] expr = "stressed" -> 16729156
      [] expr \in {"focused", "terminal"} -> 4521796
      [] expr = "thinking" -> 16755200
      [] expr = "searching" -> 16746751
      [] expr = "reading" -> 8969727
      [] OTHER -> 16777215

----------------------------------------------------------------------------
(* lib/main.py, _handle_line.  A line is kept as what the stripped line     *)
(* starts with (head: one of the four commands, or something else) and the  *)
(* rest of it (tail).  m is the device: its eyes, ticker and display.       *)

Line(head, tail) == [head |-> head, tail |-> tail]

\* str.upper() of the arguments of "SCREEN:" lines
upper(text) ==
    CASE text = "on" -> "ON"
      [] text = "off" -> "OFF"
      [] text = "dim:10" -> "DIM:10"
      [] OTHER -> text

\* int(cmd[4:]) of the "DIM:" arguments that are numbers; int() raises
\* ValueError on the others
dim_pct == ("DIM:10" :> 10) @@ ("DIM:250" :> 250) @@ ("DIM:-5" :> -5)

\* the "SCREEN:" branch
screen(b, arg) ==
    LET cmd == upper(strip(arg)) IN
    CASE cmd = "OFF" -> backlight(b, FALSE)
      [] cmd = "ON" -> backlight(b, TRUE)
      [] cmd \in DOMAIN dim_pct -> brightness(b, dim_pct[cmd])
      [] OTHER -> b

\* the ticker made a call that left it as k: the display received the
\* calls of the methods that acted
ticker_did(m, k) ==
    CHOOSE after \in
        { [dev EXCEPT !.ticker = left,
                      !.display = received(dev.display,
                                           calls_of("ticker", left.trace))] :
            dev \in {m}, left \in {k} } : TRUE

\* the eyes made a call that left them as e
eyes_did(m, e) ==
    CHOOSE after \in
        { [dev EXCEPT !.eyes = left,
                      !.display = received(dev.display,
                                           calls_of("eyes", left.trace))] :
            dev \in {m}, left \in {e} } : TRUE

\* mutant: a status line also resets the face
handle_line_resetting(m, t, d, line) ==
    IF line.head = "E:"
    THEN LET expr == lower(strip(line.tail)) IN
         [m EXCEPT !.eyes = set_expression(m.eyes, d, expr),
                   !.ticker = set_color(m.ticker, ticker_colors(expr))]
    ELSE IF line.head = "S:"
    THEN [ticker_did(m, set_text(m.ticker, t, lstrip(line.tail)))
            EXCEPT !.eyes = set_expression(m.eyes, d, "normal")]
    ELSE m

handle_line(m, t, d, line) ==
    CASE line.head = "S:" ->
            ticker_did(m, set_text(m.ticker, t, lstrip(line.tail)))
      [] line.head = "CLEAR" ->
            ticker_did(m, set_text(m.ticker, t, ""))
      [] line.head = "SCREEN:" ->
            [m EXCEPT !.display = screen(m.display, line.tail)]
      [] line.head = "E:" ->
            LET expr == lower(strip(line.tail)) IN
            [m EXCEPT !.eyes = set_expression(m.eyes, d, expr),
                      !.ticker = set_color(m.ticker, ticker_colors(expr))]
      [] OTHER -> m

----------------------------------------------------------------------------
(* scripts/activity_watcher.py: the program on the host computer that       *)
(* follows the agent's log and writes command lines to the serial port.     *)
(* watcher holds the fields of the ActivityWatcher object under their       *)
(* source names (without the leading underscore) and, as instrumentation,   *)
(* clock (what time.time() returns, in seconds), written (the lines the     *)
(* last handler wrote to the port), sends (the send_status and              *)
(* send_expression calls of the last handler, each with the argument of the *)
(* previous call of the same method and whether it wrote) and said (the     *)
(* argument of the latest call of each method, "None" before the first)     *)
(* and returned (what the last handler returned, "None" when nothing).      *)

SUSTAINED_WORK_THRESHOLD == 600

\* self._serial_check_interval: seconds between two serial health checks
serial_check_interval == 30

DEFAULT_TIMEOUTS ==
    [waiting |-> 10, idle |-> 180, sleepy |-> 300, asleep |-> 600, screenOff |-> 900]

TOOL_EXPRESSIONS(tool) ==
    CASE tool \in {"edit", "write"} -> "focused"
      [] tool \in {"read", "web_fetch", "memory_search", "memory_get",
                   "sessions_history"} -> "reading"
      [] tool \in {"web_search", "browser", "image"} -> "searching"
      [] tool = "exec" -> "terminal"
      [] tool = "message" -> "composing"
      [] OTHER -> "normal"

\* _choice over a list, by the draw
choice(list, d) == IF d = "low" THEN list[1] ELSE list[Len(list)]

\* ActivityWatcher(config), constructed at time t with the port connected.
\* `port` says whether the serial device is there (opening it and writing to
\* it succeed), `reached` keeps the last status and the last expression the
\* device received, which at its start are the empty ticker and "normal"
ActivityWatcher(config, t) ==
    [timeouts |-> config.timeouts,
     WAITING_PHRASES |-> config.phrases.waiting,
     IDLE_PHRASES |-> config.phrases.idle,
     port |-> TRUE,
     reached |-> [status |-> "", expr |-> "normal"],
     ser_open |-> TRUE,
     \* 0 on the clock of time.time(): longer ago than any interval
     last_serial_check |-> t - (serial_check_interval + 1),
     current_status |-> "",
     last_activity |-> t,
     waiting_sent |-> FALSE,
     idle_sent |-> FALSE,
     sleepy_sent |-> FALSE,
     asleep_sent |-> FALSE,
     current_expr |-> "normal",
     screen_off |-> FALSE,
     last_phrase_time |-> 0,
     tool_streak |-> "",
     streak_count |-> 0,
     work_start |-> 0,
     clock |-> t,
     written |-> <<>>,
     sends |-> <<>>,
     idle_writes |-> <<>>,
     said |-> [status |-> "None", expr |-> "None"],
     last_signal_state |-> <<>>,
     returned |-> "None",
     started |-> FALSE]

\* self.ser.write(line); self.ser.flush() on a port that takes the line
ser_write(w, line) ==
    [w EXCEPT !.written = Append(@, line),
              !.reached = CASE line[1] = "S:" -> [@ EXCEPT !.status = line[2]]
                            [] line[1] = "E:" -> [@ EXCEPT !.expr = line[2]]
                            [] OTHER -> @]

\* _connect_serial: the port is closed, then opened again if it is there
connect_serial(w) == [w EXCEPT !.ser_open = w.port]

\* _check_serial_health
check_serial_health(w) ==
    IF ~w.ser_open THEN connect_serial(w)
    ELSE IF ~w.port THEN connect_serial(w)
    ELSE w

\* the periodic serial health check of run(), after _check_idle()
serial_check(w) ==
    IF w.clock - w.last_serial_check > serial_check_interval
    THEN [check_serial_health(w) EXCEPT !.last_serial_check = w.clock]
    ELSE w

\* the call as the instrumentation keeps it
sent(w, method, arg, wrote) ==
    [w EXCEPT !.sends = Append(@, [method |-> method, arg |-> arg,
                                   previous |-> w.said[method], wrote |-> wrote]),
              !.said[method] = arg]

send_status(w, text) ==
    IF text = w.current_status
    THEN sent(w, "status", text, FALSE)
    ELSE IF w.ser_open /\ w.port
    THEN sent(ser_write([w EXCEPT !.current_status = text], <<"S:", text>>),
              "status", text, TRUE)
    \* the write raised SerialException, or the port was not open
    ELSE sent(connect_serial([w EXCEPT !.current_status = text]),
              "status", text, FALSE)

\* mutant: the watcher does not remember that it dimmed the screen
send_screen_forgetting(w, on) ==
    IF w.ser_open
    THEN ser_write(w, <<"SCREEN:", IF on THEN "ON" ELSE "DIM:10">>)
    ELSE w

send_screen(w, on) ==
    IF w.ser_open
    THEN IF w.port
         THEN [ser_write(w, <<"SCREEN:", IF on THEN "ON" ELSE "DIM:10">>)
                 EXCEPT !.screen_off = ~on]
         ELSE connect_serial(w)
    ELSE w

send_expression(w, expr) ==
    IF expr = w.current_expr
    THEN sent(w, "expr", expr, FALSE)
    ELSE IF w.ser_open
    THEN IF w.port
         THEN sent(ser_write([w EXCEPT !.current_expr = expr], <<"E:", expr>>),
                   "expr", expr, TRUE)
         ELSE sent(connect_serial([w EXCEPT !.current_expr = expr]),
                   "expr", expr, FALSE)
    ELSE sent([w EXCEPT !.current_expr = expr], "expr", expr, FALSE)

\* text + "...", padded with spaces to 25 characters
idle_text(phrase) ==
    CASE phrase = "Ready for the whistle" -> "Ready for the whistle... "
      [] OTHER -> phrase \o "..."

send_idle_status(w, phrase) == send_status(w, idle_text(phrase))

\* _check_idle, called when the clock of w shows the time of the call
check_idle(w, d) ==
    LET idle_secs(a) == a.clock - a.last_activity
        refresh(a, phrases) ==
            send_idle_status([a EXCEPT !.last_phrase_time = a.clock],
                             choice(phrases, d))
        waiting(a) ==
            IF ~a.waiting_sent /\ idle_secs(a) > a.timeouts.waiting
            THEN [refresh([send_expression(a, "waiting") EXCEPT !.work_start = 0],
                          a.WAITING_PHRASES)
                    EXCEPT !.waiting_sent = TRUE]
            ELSE a
        waiting_phrase(a) ==
            IF /\ a.waiting_sent /\ ~a.idle_sent
               /\ a.clock - a.last_phrase_time >= 45
            THEN refresh(a, a.WAITING_PHRASES)
            ELSE a
        idle(a) ==
            IF ~a.idle_sent /\ idle_secs(a) > a.timeouts.idle
            THEN [refresh(send_expression(a, "idle"), a.IDLE_PHRASES)
                    EXCEPT !.idle_sent = TRUE]
            ELSE a
        idle_phrase(a) ==
            IF /\ a.idle_sent /\ ~a.asleep_sent
               /\ a.clock - a.last_phrase_time >= 45
            THEN refresh(a, a.IDLE_PHRASES)
            ELSE a
        sleepy(a) ==
            IF ~a.sleepy_sent /\ idle_secs(a) > a.timeouts.sleepy
            THEN [send_expression(a, "sleepy") EXCEPT !.sleepy_sent = TRUE]
            ELSE a
        asleep(a) ==
            IF ~a.asleep_sent /\ idle_secs(a) > a.timeouts.asleep
            THEN [send_status(send_expression(a, "asleep"), SnoreText)
                    EXCEPT !.asleep_sent = TRUE]
            ELSE a
        screen_dim(a) ==
            IF ~a.screen_off /\ idle_secs(a) > a.timeouts.screenOff
            THEN send_screen(a, FALSE)
            ELSE a
    IN  IF w.last_activity <= 0 THEN w
        ELSE CHOOSE after \in
               { screen_dim(g) : g \in
                 { asleep(f) : f \in
                   { sleepy(e) : e \in
                     { idle_phrase(c) : c \in
                       { idle(b) : b \in
                         { waiting_phrase(a) : a \in
                           { waiting(v) : v \in {w} } } } } } } } : TRUE

\* mutant: the face wakes before the screen
wake_from_sleep_face_first(w) ==
    LET was_sleeping == w.sleepy_sent \/ w.asleep_sent
        awake == IF was_sleeping
                 THEN send_expression([w EXCEPT !.sleepy_sent = FALSE,
                                                !.asleep_sent = FALSE,
                                                !.current_expr = ""], "normal")
                 ELSE w
    IN  IF w.screen_off THEN send_screen(awake, TRUE) ELSE awake

\* mutant: only a watcher that sent "asleep" counts as sleeping
wake_from_sleep_when_asleep(w) ==
    LET was_sleeping == w.asleep_sent
        lit == IF w.screen_off THEN send_screen(w, TRUE) ELSE w
    IN  IF was_sleeping
        THEN send_expression([lit EXCEPT !.sleepy_sent = FALSE,
                                         !.asleep_sent = FALSE,
                                         !.current_expr = ""], "normal")
        ELSE lit

\* _handle_event, "Wake from sleep": screen on first, then expression
wake_from_sleep(w) ==
    LET was_sleeping == w.sleepy_sent \/ w.asleep_sent
        lit == IF w.screen_off THEN send_screen(w, TRUE) ELSE w
    IN  IF was_sleeping
        THEN send_expression([lit EXCEPT !.sleepy_sent = FALSE,
                                         !.asleep_sent = FALSE,
                                         !.current_expr = ""], "normal")
        ELSE lit

\* mutant: work never tires
tool_face_tireless(w, tool) == send_expression(w, TOOL_EXPRESSIONS(tool))

\* _handle_event, tool_start: the face of the tool, or of sustained work
tool_face(w, tool) ==
    IF w.clock - w.work_start > SUSTAINED_WORK_THRESHOLD
    THEN send_expression(w, "stressed")
    ELSE send_expression(w, TOOL_EXPRESSIONS(tool))

\* the status of a tool_start: the fresh hint, or one of the tool's labels
\* (of the streak's labels when the streak is long enough)
tool_status(tool, streak_count, hint, d) ==
    IF hint # "None" THEN hint \o "..."
    ELSE LET labels ==
                CASE tool = "exec" /\ streak_count >= 3 ->
                        <<"Running tests", "Debugging", "Busy in terminal">>
                  [] tool = "exec" ->
                        <<"Running a command", "Executing something", "In the terminal">>
                  [] tool = "tts" ->
                        <<"Finding my voice", "Preparing to speak">>
                  [] OTHER -> <<"Using " \o tool>>
         IN  choice(labels, d) \o "..."

\* mutant: a heartbeat counts as activity and wakes the face
handle_event_waking(w, info, hint, d) ==
    [send_expression(w, "normal")
        EXCEPT !.last_activity = w.clock, !.waiting_sent = FALSE,
               !.idle_sent = FALSE]

\* _handle_event(info), called when the clock of w shows the time of the
\* call; hint is what _read_hint() returns
handle_event(w, info, hint, d) ==
    LET event == info.event
        active(a) ==
            [a EXCEPT !.last_activity = a.clock,
                      !.waiting_sent = FALSE, !.idle_sent = FALSE]
        work(a) == IF a.work_start = 0 THEN [a EXCEPT !.work_start = a.clock] ELSE a
        streak(a) ==
            IF info.tool = a.tool_streak
            THEN [a EXCEPT !.streak_count = @ + 1]
            ELSE [a EXCEPT !.tool_streak = info.tool, !.streak_count = 1]
        tool_text(a) ==
            send_status(a, tool_status(info.tool, a.streak_count, hint, d))
        dispatch(a) ==
            CASE event = "discord_incoming" ->
                    send_status(send_expression(a, "thinking"),
                                "Reading message...")
              [] event = "tool_start" /\ info.tool = "process" -> a
              [] event = "tool_start" /\ info.tool = "message" ->
                    send_status(send_expression(a, "composing"),
                                IF hint # "None" THEN hint \o "..."
                                ELSE choice(<<"Writing on Discord...",
                                              "Composing a reply...",
                                              "Typing a response...",
                                              "Sending a message...">>, d))
              [] event = "tool_start" ->
                    CHOOSE after \in
                        { tool_text(c) : c \in
                          { tool_face(b, info.tool) : b \in { streak(v) : v \in {a} } } } : TRUE
              [] event = "run_start" ->
                    send_status(send_expression(a, "thinking"), "Thinking...")
              [] event = "run_end" ->
                    send_status(send_expression(a, "done"),
                                choice(<<"Done", "Finished", "All done",
                                         "Wrapped up">>, d))
              [] OTHER -> a
    IN  IF event \in {"heartbeat", "slow_listener"}
        THEN [w EXCEPT !.last_activity = w.clock]
        ELSE CHOOSE after \in
               { dispatch(c) : c \in
                 { work(b) : b \in
                   { wake_from_sleep(a) : a \in { active(v) : v \in {w} } } } } : TRUE

\* SIGNAL_STATE_EXPRESSIONS: the face of a signalled state, "None" for a
\* state without one (idle is not in the mapping)
SIGNAL_STATE_EXPRESSIONS(state) ==
    CASE state \in {"thinking", "reviewing"} -> "thinking"
      [] state = "searching" -> "searching"
      [] state = "reading" -> "reading"
      [] state = "coding" -> "focused"
      [] state = "composing" -> "composing"
      [] state = "executing" -> "terminal"
      [] OTHER -> "None"

\* mutant: a signal is handled again although nothing in it changed
handle_signal_again(w, sig) ==
    IF sig.state = "idle"
    THEN [w EXCEPT !.last_signal_state = <<>>, !.returned = "False"]
    ELSE IF SIGNAL_STATE_EXPRESSIONS(sig.state) = "None"
    THEN [w EXCEPT !.returned = "False"]
    ELSE [send_status(send_expression(
                          wake_from_sleep([w EXCEPT !.last_activity = w.clock,
                                                    !.waiting_sent = FALSE,
                                                    !.idle_sent = FALSE]),
                          SIGNAL_STATE_EXPRESSIONS(sig.state)),
                      CASE sig.detail # "" -> sig.detail
                        [] sig.state = "thinking" -> "Thinking..."
                        [] sig.state = "coding" -> "Coding..."
                        [] OTHER -> sig.state \o "...")
            EXCEPT !.last_signal_state = <<sig.state, sig.detail>>,
                   !.returned = "True"]

\* _handle_signal(sig): idle forgets the last signal (<<>> for none), an
\* unknown state is not handled, a signal equal to the last one only counts
\* as activity, and a new one wakes the watcher and sends its face and its
\* detail (the capitalised state when it has no detail)
handle_signal(w, sig) ==
    LET face == SIGNAL_STATE_EXPRESSIONS(sig.state)
        text == CASE sig.detail # "" -> sig.detail
                  [] sig.state = "thinking" -> "Thinking..."
                  [] sig.state = "coding" -> "Coding..."
                  [] OTHER -> sig.state \o "..."
        active == [w EXCEPT !.last_activity = w.clock]
    IN  CASE sig.state = "idle" ->
                [w EXCEPT !.last_signal_state = <<>>, !.returned = "False"]
          [] face = "None" -> [w EXCEPT !.returned = "False"]
          [] w.last_signal_state = <<sig.state, sig.detail>> ->
                [active EXCEPT !.returned = "True"]
          [] OTHER ->
                [send_status(send_expression(
                                 wake_from_sleep([active EXCEPT !.waiting_sent = FALSE,
                                                                !.idle_sent = FALSE]),
                                 face), text)
                    EXCEPT !.last_signal_state = <<sig.state, sig.detail>>,
                           !.returned = "True"]

\* the first statements of run(): the screen on, the face normal, "Online"
run_startup(w) ==
    [send_status(send_expression(send_screen(w, TRUE), "normal"), "Online")
        EXCEPT !.started = TRUE]

----------------------------------------------------------------------------
(* scripts/gateway_signal.py: the signal writer on the host computer.  It  *)
(* watches the gateway's logs and its CPU usage and keeps the status file  *)
(* /tmp/clawdbot/agent-status.json, which other programs write as well.    *)
(* A writer g holds the locals of main(), its clock (`clock`, whole        *)
(* seconds of time.time()) and the status file (`file`: no element when    *)
(* the file does not exist, else its JSON object with, as `by`, who wrote  *)
(* it); `log_activity`, `cpu_active` and `did` tell what the last          *)
(* iteration found and what it did to the file (instrumentation).  A log   *)
(* line is kept as the set of the patterns of ACTIVITY_PATTERNS that occur *)
(* in it.                                                                   *)

CPU_POLL_INTERVAL == 3
\* CPU_ACTIVE_THRESHOLD = 0.5 (%): CPU usage is kept in tenths of a percent
CPU_ACTIVE_THRESHOLD == 5
IDLE_AFTER == 15
STALE_SIGNAL_AGE == 25

ACTIVITY_PATTERNS ==
    << <<"web_search", "searching", "Searching the web">>,
       <<"web_fetch", "reading", "Reading a webpage">>,
       <<"[tools] message", "composing", "Writing on Discord">>,
       <<"chat.send", "composing", "Sending a reply">>,
       <<"chat.reply", "composing", "Sending a reply">>,
       <<"[tools] exec", "executing", "Running a command">>,
       <<"[tools] read", "reading", "Reading a file">>,
       <<"[tools] write", "coding", "Writing a file">>,
       <<"[tools] edit", "coding", "Editing a file">>,
       <<"memory_search", "searching", "Searching memory">>,
       <<"memory_get", "reading", "Reading memory">>,
       <<"[tools] browser", "searching", "Using the browser">>,
       <<"[tools] cron", "thinking", "Managing schedules">>,
       <<"sessions_spawn", "thinking", "Spawning a sub-agent">>,
       <<"[tools] image", "thinking", "Analysing an image">>,
       <<"Slow listener.*Discord", "composing", "Processing a response">>,
       <<"DiscordMessageListener", "composing", "Replying on Discord">>,
       <<"discord-auto-reply", "reading", "Reading Discord">> >>

\* match_activity: the state and detail of the first pattern that occurs in
\* the line, or nothing (None)
match_activity(line) ==
    LET hits == { i \in 1..Len(ACTIVITY_PATTERNS) : ACTIVITY_PATTERNS[i][1] \in line }
    IN  IF hits = {} THEN <<>>
        ELSE LET first == CHOOSE i \in hits : \A j \in hits : i <= j
             IN  <<ACTIVITY_PATTERNS[first][2], ACTIVITY_PATTERNS[first][3]>>

\* the status file as written by `by` at time ts
Signal(by, state, detail, ts) ==
    <<[by |-> by, state |-> state, detail |-> detail, ts |-> ts]>>

\* write_signal: the file is replaced by the writer's signal, stamped now
write_signal(g, state, detail) ==
    [g EXCEPT !.file = Signal("writer", state, detail, g.clock), !.did = "write"]

\* remove_signal: the file is removed, if there is one
remove_signal(g) == [g EXCEPT !.file = <<>>, !.did = "remove"]

\* main(), before the loop
GatewayWriter(t) ==
    [last_active_time |-> 0, was_active |-> FALSE, last_write_time |-> 0,
     last_state |-> "", last_detail |-> "", last_cpu_check |-> 0,
     clock |-> t, file |-> <<>>,
     log_activity |-> <<>>, cpu_active |-> FALSE, did |-> "init"]

\* main(), the branch `if is_active`: g is the writer after the CPU check, signal
\* the state and detail to show
is_active(g, signal) ==
    LET t == g.clock
        seen == [g EXCEPT !.last_active_time = t]
        respected ==
            /\ g.file # <<>>
            /\ t - g.file[1].ts < STALE_SIGNAL_AGE
            /\ g.file[1].detail # "Working"
            /\ g.file[1].detail # ""
            /\ signal = <<"thinking", "Working">>
        state_changed == signal[1] # g.last_state \/ signal[2] # g.last_detail
        signal_stale == t - g.last_write_time > STALE_SIGNAL_AGE
    IN  IF respected
        THEN [seen EXCEPT !.was_active = TRUE, !.did = "respect"]
        ELSE IF ~g.was_active \/ state_changed \/ signal_stale
        THEN [write_signal(seen, signal[1], signal[2])
                EXCEPT !.last_write_time = t, !.last_state = signal[1],
                       !.last_detail = signal[2], !.was_active = TRUE]
        ELSE [seen EXCEPT !.was_active = TRUE]

\* mutant: the grace period ends as soon as IDLE_AFTER seconds have passed
grace_ending_early(g) ==
    LET t == g.clock IN
    IF t - g.last_active_time >= IDLE_AFTER
    THEN [remove_signal(g) EXCEPT !.was_active = FALSE, !.last_state = "",
                                  !.last_detail = ""]
    ELSE IF t - g.last_write_time > STALE_SIGNAL_AGE
    THEN [write_signal(g, g.last_state, g.last_detail)
            EXCEPT !.last_write_time = t]
    ELSE g

\* main(), the branch `elif was_active`: the grace period before going idle
grace(g) ==
    LET t == g.clock IN
    IF t - g.last_active_time > IDLE_AFTER
    THEN [remove_signal(g) EXCEPT !.was_active = FALSE, !.last_state = "",
                                  !.last_detail = ""]
    ELSE IF t - g.last_write_time > STALE_SIGNAL_AGE
    THEN [write_signal(g, g.last_state, g.last_detail)
            EXCEPT !.last_write_time = t]
    ELSE g

\* main(): one iteration of the loop, at the time g.clock.  out_line and
\* err_line are the lines readline() returns from the two logs (no pattern
\* occurs in the empty line that stands for nothing new), pid is what
\* find_gateway_pid() returns (0: None) and cpu what get_cpu_usage() returns
main(g, out_line, err_line, pid, cpu) ==
    LET t == g.clock
        from_err == match_activity(err_line)
        log_activity == IF from_err # <<>> THEN from_err
                        ELSE match_activity(out_line)
        poll == t - g.last_cpu_check >= CPU_POLL_INTERVAL
        cpu_active == poll /\ pid # 0 /\ cpu > CPU_ACTIVE_THRESHOLD
        polled == [g EXCEPT !.last_cpu_check = IF poll THEN t ELSE @,
                            !.log_activity = log_activity,
                            !.cpu_active = cpu_active,
                            !.did = "nothing"]
    IN  IF log_activity # <<>> \/ cpu_active
        THEN is_active(polled, IF log_activity # <<>> THEN log_activity
                               ELSE <<"thinking", "Working">>)
        ELSE IF g.was_active THEN grace(polled)
        ELSE polled

----------------------------------------------------------------------------
(* The state machine *)

\* Hosts.  A host calls update() at the intervals dts (milliseconds; below
\* and above the dwell times of the blink), sends the names `names` to
\* set_expression and the lines "E:<name>" for the names `lines`, and makes
\* at most `updates` update calls (Forever: no limit) and `cmds` commands.
Forever == -1

LongHost == [dts |-> {10, 6144}, names |-> Names, lines |-> LineNames,
             updates |-> MaxUpdates, cmds |-> MaxCmds]

SeqHost == [dts |-> {10, 6144}, names |-> Names, lines |-> {"ASLEEP"},
            updates |-> SeqUpdates, cmds |-> SeqCmds]

\* the host of the sleep scenario: it sends asleep once, as a call or as
\* the line "E:ASLEEP", and calls update() for ever
AsleepHost == [dts |-> {8192}, names |-> {"asleep"}, lines |-> {"ASLEEP"},
               updates |-> Forever, cmds |-> 1]

\* the host of the blink scenario: update() comes 20 ms after the previous
\* call (within the 60 ms the eyes stay closed) or after a pause, and the
\* command arrives at any moment, also while a blink is in progress
BlinkHost == [dts |-> {20, 6144}, names |-> {"asleep", "sleepy"},
              lines |-> {"ASLEEP"}, updates |-> BlinkUpdates,
              cmds |-> BlinkCmds]

\* the host of the easing scenario: it sends one name, once, as a call or
\* as the line "E:ASLEEP", and calls update() for ever; a blink is due
\* whenever update() gets as far as asking
EaseHost == [dts |-> {8192}, names |-> Vocabulary, lines |-> {"ASLEEP"},
             updates |-> Forever, cmds |-> 1]

\* the host of the reading scenario: it sends reading, as a call or as the
\* line "E:reading", and calls update() every 200 ms (the granularity of the
\* scenario: every tick is a step of the sweep, in either direction)
ReadHost == [dts |-> {200}, names |-> {"reading"}, lines |-> {"reading"},
             updates |-> ReadUpdates, cmds |-> ReadCmds]

\* the host with a display whose writes can fail
FaultHost == [dts |-> {10, 6144}, names |-> Names, lines |-> LineNames,
              updates |-> FaultUpdates, cmds |-> FaultCmds]

\* the host of the configuration scenario: /config.json holds cfg
ConfigHost(cfg) == [dts |-> {10, 6144}, names |-> {"normal", "happy"},
                    lines |-> {"asleep"}, updates |-> ConfigUpdates,
                    cmds |-> ConfigCmds, config |-> cfg]

\* no line is dispatched in an iteration of the main loop: nothing arrived,
\* or a character that is not a line end, or a line end after nothing
NoLine == Line("", "")

\* the lines the main loop receives
LoopLines ==
    { Line("S:", text) : text \in {ShortText, LedText, PaddedText, SnoreText,
                                   LongText, BlankText} }
    \cup { Line("SCREEN:", arg) : arg \in {"OFF", "on", "dim:10", "DIM:250",
                                           "DIM:-5", "DIM:x", "BLINK"} }
    \cup { Line("E:", name) : name \in {"asleep", " asleep", "Sleepy ", "thinking",
                                        "waiting", "quizzical"} }
    \cup { Line("CLEAR", ""), Line("e:", "asleep"), Line("HELLO", "") }

\* the host of the main loop: the lines arrive over the serial port, an
\* iteration takes its 20 ms sleep or, now and then, two seconds
LoopHost == [dts |-> {20, 2048}, names |-> {}, lines |-> LoopLines,
             updates |-> LoopUpdates, cmds |-> LoopCmds]

\* no Eyes object: run() has not constructed it, or __init__ raised
NoEyes == [trace |-> <<>>]

\* no StatusTicker object: run() has not come to construct it
NoTicker == [trace |-> <<>>]

\* the activity watcher is another program: it is not part of the device
NoWatcher == [written |-> <<>>]

\* the main loop has read nothing: line_buf = "", and, as instrumentation,
\* the characters read so far and the lines handed to _handle_line
NoSerial == [line_buf |-> <<>>, arrived |-> <<>>, dispatched |-> <<>>]

\* the signal writer is another program as well
NoGateway == [file |-> <<>>]

\* ticker_default_color = 0xFFFFFF
ticker_default_color == 16777215

\* the display after run() has constructed the eyes e and the ticker k:
\* Eyes.__init__ fills the screen and blits, StatusTicker.__init__ clears
\* its row
constructed_display(e, k) ==
    received(received(received(ST7789, fill_rect("eyes")),
                      calls_of("eyes", e.trace)),
             calls_of("ticker", k.trace))

\* the display after the last call of the eyes, which left them as e
after_eyes(b, e) == [b EXCEPT !.calls = calls_of("eyes", e.trace)]

Constructed ==
    { Construct(0, d, cfg.happySquint, cfg.defaultExpression, cfg.blinkInterval) :
        d \in Dice, cfg \in Configs }

InitWith(h) ==
    /\ host = h
    /\ now = 0
    /\ eyes \in Constructed
    /\ ticker = StatusTicker(ticker_default_color)
    /\ display = constructed_display(eyes, ticker)
    /\ watcher = NoWatcher
    /\ gateway = NoGateway
    /\ serial = NoSerial
    /\ call = [op |-> "init", arg |-> ""]
    /\ cmds = 0
    /\ ticks = 0

Init == InitWith(LongHost)

InitSeq == InitWith(SeqHost)

InitAsleep == InitWith(AsleepHost)

InitBlink == InitWith(BlinkHost)

InitEase == InitWith(EaseHost)

InitRead == InitWith(ReadHost)

InitLoop == InitWith(LoopHost)

InitFaulty == InitWith(FaultHost)

\* the program starts with some config; nothing is constructed yet
InitConfig ==
    /\ host \in { ConfigHost(cfg) : cfg \in ConfigInputs }
    /\ now = 0
    /\ eyes = NoEyes
    /\ ticker = NoTicker
    /\ display = ST7789
    /\ watcher = NoWatcher
    /\ gateway = NoGateway
    /\ serial = NoSerial
    /\ call = [op |-> "start", arg |-> ""]
    /\ cmds = 0
    /\ ticks = 0

\* the host calls eyes.update(), dt milliseconds after the previous call
Update ==
    \E dt \in host.dts, d \in Dice :
        LET t == (now + dt) % TicksPeriod IN
        /\ host.updates = Forever \/ ticks < host.updates
        /\ now' = t
        /\ eyes' = update(eyes, t, d)
        /\ display' = after_eyes(display, eyes')
        /\ call' = [op |-> "update", arg |-> ""]
        /\ ticks' = IF host.updates = Forever THEN ticks ELSE ticks + 1
        /\ UNCHANGED <<cmds, host, ticker, watcher, gateway, serial>>

\* a caller hands a name to eyes.set_expression
SetExpression ==
    \E name \in host.names, d \in Dice :
        /\ cmds < host.cmds
        /\ eyes' = set_expression([eyes EXCEPT !.trace = <<>>], d, name)
        /\ display' = after_eyes(display, eyes')
        /\ call' = [op |-> "set_expression", arg |-> name]
        /\ cmds' = cmds + 1
        /\ UNCHANGED <<now, ticks, host, ticker, watcher, gateway, serial>>

\* the main loop receives the line "E:<name>"
HandleLine ==
    \E name \in host.lines, d \in Dice :
        LET m == handle_line([eyes |-> [eyes EXCEPT !.trace = <<>>],
                              ticker |-> [ticker EXCEPT !.trace = <<>>],
                              display |-> [display EXCEPT !.calls = <<>>]],
                             now, d, Line("E:", name))
        IN
        /\ cmds < host.cmds
        /\ eyes' = m.eyes
        /\ ticker' = m.ticker
        /\ display' = m.display
        /\ call' = [op |-> "E:", arg |-> name]
        /\ cmds' = cmds + 1
        /\ UNCHANGED <<now, ticks, host, watcher, gateway, serial>>

\* the host calls eyes.update() and a display write of that call raises;
\* the main loop catches the exception, prints it and goes on
UpdateWriteFails ==
    \E dt \in host.dts, d \in Dice :
        LET t == (now + dt) % TicksPeriod IN
        /\ host.updates = Forever \/ ticks < host.updates
        /\ Acted(update_raising(eyes, t, d), "raise")
        /\ now' = t
        /\ eyes' = update_raising(eyes, t, d)
        /\ display' = after_eyes(display, eyes')
        /\ call' = [op |-> "update", arg |-> "ERR"]
        /\ ticks' = IF host.updates = Forever THEN ticks ELSE ticks + 1
        /\ UNCHANGED <<cmds, host, ticker, watcher, gateway, serial>>

Next == Update \/ SetExpression \/ HandleLine

\* the body of the main loop of run(): the line whose end arrived is
\* dispatched, then eyes.update(), then ticker.update()
iteration(m, t, d, line) ==
    CHOOSE after \in
        { ticker_did(drawn, ticker_update([drawn.ticker EXCEPT !.trace = <<>>], t)) :
            drawn \in
                { eyes_did(handled, update(handled.eyes, t, d)) :
                    handled \in { IF line = NoLine THEN m
                                  ELSE handle_line(m, t, d, line) } } } : TRUE

\* one iteration of the main loop, and the sleep that ends it
Loop ==
    /\ ticks < host.updates
    /\ \E line \in host.lines \cup {NoLine}, d \in Dice :
          /\ line # NoLine => cmds < host.cmds
          /\ \E m \in { iteration([eyes |-> [eyes EXCEPT !.trace = <<>>],
                                   ticker |-> [ticker EXCEPT !.trace = <<>>],
                                   display |-> [display EXCEPT !.calls = <<>>]],
                                  now, d, line) } :
                /\ eyes' = m.eyes
                /\ ticker' = m.ticker
                /\ display' = m.display
          /\ call' = [op |-> "loop", arg |-> line]
          /\ cmds' = IF line = NoLine THEN cmds ELSE cmds + 1
    /\ \E dt \in host.dts : now' = (now + dt) % TicksPeriod
    /\ ticks' = ticks + 1
    /\ UNCHANGED <<host, watcher, gateway, serial>>

\* the characters the host of SpecSerial sends: a status line ended by
\* carriage return and line feed, then an expression line ended by a line feed
SerialHost ==
    [dts |-> {20}, names |-> {}, lines |-> {},
     stream |-> <<"S", ":", "H", "i", "\r", "\n",
                  "E", ":", "a", "s", "l", "e", "e", "p", "\n">>,
     updates |-> SerialSteps, cmds |-> 0]

\* the line _handle_line receives, by the prefix its startswith tests find
\* first and the text after it
parse(buf) ==
    LET RECURSIVE text(_)
        text(chars) == IF chars = <<>> THEN ""
                       ELSE Head(chars) \o text(Tail(chars))
        startswith(prefix) ==
            /\ Len(buf) >= Len(prefix)
            /\ SubSeq(buf, 1, Len(prefix)) = prefix
        after(prefix) == text(SubSeq(buf, Len(prefix) + 1, Len(buf)))
    IN  CASE startswith(<<"S", ":">>) -> Line("S:", after(<<"S", ":">>))
          [] startswith(<<"C", "L", "E", "A", "R">>) ->
                Line("CLEAR", after(<<"C", "L", "E", "A", "R">>))
          [] startswith(<<"S", "C", "R", "E", "E", "N", ":">>) ->
                Line("SCREEN:", after(<<"S", "C", "R", "E", "E", "N", ":">>))
          [] startswith(<<"E", ":">>) -> Line("E:", after(<<"E", ":">>))
          [] OTHER -> Line("?", text(buf))

\* run(): what an iteration of the main loop does with the character ch
\* that sys.stdin.read(1) returned ("" when poll reported no event).  A line
\* end after a non-empty buffer calls _handle_line, and the buffer is emptied
\* by the statement after the call: when the call raises, the except clause
\* is entered with the buffer as it was
read(r, ch, raises) ==
    LET arrived == IF ch = "" THEN r.arrived ELSE Append(r.arrived, ch) IN
    IF ch = "" THEN r
    ELSE IF ch \in {"\n", "\r"}
    THEN IF r.line_buf # <<>>
         THEN [line_buf |-> IF raises THEN r.line_buf ELSE <<>>,
               arrived |-> arrived,
               dispatched |-> Append(r.dispatched,
                                     [line |-> r.line_buf, raised |-> raises])]
         ELSE [r EXCEPT !.arrived = arrived]
    ELSE [r EXCEPT !.line_buf = Append(@, ch), !.arrived = arrived]

InitSerial == InitWith(SerialHost)

\* one iteration of the main loop of run(), character by character: the
\* next character of the stream has arrived or poll reports no event; when
\* _handle_line raises (a MemoryError at its first statement, line.strip()),
\* the except clause prints and eyes.update() and ticker.update() are skipped
Receive ==
    /\ ticks < host.updates
    /\ \E event \in BOOLEAN, raises \in BOOLEAN, d \in Dice :
          LET ch == IF event THEN host.stream[Len(serial.arrived) + 1] ELSE ""
              handles == ch \in {"\n", "\r"} /\ serial.line_buf # <<>>
          IN  /\ event => Len(serial.arrived) < Len(host.stream)
              /\ raises => handles
              /\ serial' = read(serial, ch, raises)
              /\ IF raises
                 THEN /\ eyes' = [eyes EXCEPT !.trace = <<>>]
                      /\ ticker' = [ticker EXCEPT !.trace = <<>>]
                      /\ display' = [display EXCEPT !.calls = <<>>]
                 ELSE \E m \in { iteration(
                                  [eyes |-> [eyes EXCEPT !.trace = <<>>],
                                   ticker |-> [ticker EXCEPT !.trace = <<>>],
                                   display |-> [display EXCEPT !.calls = <<>>]],
                                  now, d,
                                  IF handles THEN parse(serial.line_buf)
                                  ELSE NoLine) } :
                        /\ eyes' = m.eyes
                        /\ ticker' = m.ticker
                        /\ display' = m.display
              /\ call' = [op |-> "run", arg |-> ch]
    /\ \E dt \in host.dts : now' = (now + dt) % TicksPeriod
    /\ ticks' = ticks + 1
    /\ UNCHANGED <<cmds, host, watcher, gateway>>

NextSerial == Receive

SpecSerial == InitSerial /\ [][NextSerial]_vars

NextLoop == Loop

NextFaulty == Next \/ UpdateWriteFails

\* run() constructs the eyes from the config; when __init__ raises, the
\* restart loop prints the crash, sleeps a second and calls run() again
Boot ==
    /\ eyes = NoEyes
    /\ IF init_raises(host.config)
       THEN /\ call' = [op |-> "crash", arg |-> "ValueError"]
            /\ now' = (now + 1000) % TicksPeriod
            /\ UNCHANGED <<eyes, ticker, display>>
       ELSE /\ \E d \in Dice : eyes' = init(host.config, now, d)
            /\ ticker' = StatusTicker(ticker_default_color)
            /\ display' = constructed_display(eyes', ticker')
            /\ call' = [op |-> "init", arg |-> ""]
            /\ UNCHANGED now
    /\ UNCHANGED <<cmds, ticks, host, watcher, gateway, serial>>

NextConfig == Boot \/ (eyes # NoEyes /\ Next)

Spec == Init /\ [][Next]_vars

SpecSeq == InitSeq /\ [][Next]_vars

SpecRead == InitRead /\ [][Next]_vars

SpecLoop == InitLoop /\ [][NextLoop]_vars

SpecFaulty == InitFaulty /\ [][NextFaulty]_vars

SpecConfig == InitConfig /\ [][NextConfig]_vars

\* the watcher's events: what _parse_line makes of a log line
Event(event, tool) == [event |-> event, tool |-> tool]

\* the watcher's world: the seconds between two handlers (dts before
\* _check_idle, gaps before an event), the events the log brings
WatcherHost(timeouts) ==
    [dts |-> {7, 70, 700}, gaps |-> {7, 700}, names |-> {}, lines |-> {},
     updates |-> WatchSteps, cmds |-> WatchEvents,
     \* the "phrases" of the configuration the tests use: one of each kind
     config |-> [timeouts |-> timeouts,
                 phrases |->
                    [waiting |-> <<"Ready for the whistle">>,
                     idle |-> <<"The first ninety minutes are the most important">>]],
     \* what _parse_line makes of the log's lines
     events |-> { Event(e, "") : e \in {"heartbeat", "slow_listener",
                                        "discord_incoming", "run_end"} }
                \cup { Event("tool_start", tool) :
                         tool \in {"process", "message", "exec", "some_new_tool"} },
     \* what _read_hint() returns, and the draw of _choice
     picks |-> { <<"None", "high">>, <<"Fixing the bug", "low">> }]

InitWatcher ==
    \* the default timeouts, and a configuration whose later ones coincide
    /\ host \in { WatcherHost(timeouts) :
                    timeouts \in {DEFAULT_TIMEOUTS,
                                  [waiting |-> 5, idle |-> 60, sleepy |-> 60,
                                   asleep |-> 240, screenOff |-> 240]} }
    /\ now = 0
    /\ eyes = NoEyes
    /\ ticker = NoTicker
    /\ display = ST7789
    /\ watcher = ActivityWatcher(host.config, 1)
    /\ gateway = NoGateway
    /\ serial = NoSerial
    /\ call = [op |-> "init", arg |-> Event("", "")]
    /\ cmds = 0
    /\ ticks = 0

\* the watcher at the start of a handler, dt seconds after the previous one
called(w, dt) ==
    [w EXCEPT !.clock = @ + dt, !.written = <<>>, !.sends = <<>>,
              !.returned = "None"]

\* run() starts: the watcher announces itself
Start ==
    /\ ~watcher.started
    /\ watcher' = run_startup(called(watcher, 0))
    /\ call' = [op |-> "run", arg |-> Event("", "")]
    /\ UNCHANGED <<eyes, now, cmds, ticks, host, ticker, display, gateway, serial>>

\* the log has no new line: _check_idle(), then the serial health check
CheckIdle ==
    /\ watcher.started
    /\ ticks < host.updates
    /\ \E dt \in host.dts :
          \E w \in { serial_check(check_idle(called(watcher, dt), "low")) } :
              watcher' = [w EXCEPT !.idle_writes = @ \o
                            SelectSeq(w.written,
                                      LAMBDA line : line[1] \in {"E:", "SCREEN:"})]
    /\ call' = [op |-> "check_idle", arg |-> Event("", "")]
    /\ ticks' = ticks + 1
    /\ UNCHANGED <<eyes, now, cmds, host, ticker, display, gateway, serial>>

\* the log has a new line that parses to an event: _handle_event(info)
HandleEvent ==
    /\ watcher.started
    /\ ticks < host.updates
    /\ cmds < host.cmds
    /\ \E dt \in host.gaps, pick \in host.picks, info \in host.events :
          /\ \E w \in { handle_event(called(watcher, dt), info, pick[1], pick[2]) } :
                watcher' = IF info.event \in {"heartbeat", "slow_listener"}
                           THEN w ELSE [w EXCEPT !.idle_writes = <<>>]
          /\ call' = [op |-> "event", arg |-> info]
    /\ ticks' = ticks + 1
    /\ cmds' = cmds + 1
    /\ UNCHANGED <<eyes, now, host, ticker, display, gateway, serial>>

NextWatcher == Start \/ CheckIdle \/ HandleEvent

\* the world of SpecPort: that of the watcher, with a serial device that
\* can go away and come back
PortHost ==
    [WatcherHost(DEFAULT_TIMEOUTS) EXCEPT
        !.dts = {7, 70}, !.gaps = {7},
        !.updates = PortSteps, !.cmds = PortEvents,
        !.events = { Event(e, "") : e \in {"discord_incoming", "run_end"} }]

InitPort ==
    /\ host = PortHost
    /\ now = 0
    /\ eyes = NoEyes
    /\ ticker = NoTicker
    /\ display = ST7789
    /\ watcher = ActivityWatcher(host.config, 1)
    /\ gateway = NoGateway
    /\ serial = NoSerial
    /\ call = [op |-> "init", arg |-> Event("", "")]
    /\ cmds = 0
    /\ ticks = 0

\* the serial device goes away: the cable is pulled, the board resets
Unplug ==
    /\ watcher.port
    /\ watcher' = [watcher EXCEPT !.port = FALSE]
    /\ call' = [op |-> "unplug", arg |-> Event("", "")]
    /\ UNCHANGED <<eyes, now, cmds, ticks, host, ticker, display, gateway, serial>>

\* the serial device is back
Replug ==
    /\ ~watcher.port
    /\ watcher' = [watcher EXCEPT !.port = TRUE]
    /\ call' = [op |-> "replug", arg |-> Event("", "")]
    /\ UNCHANGED <<eyes, now, cmds, ticks, host, ticker, display, gateway, serial>>

NextPort == Start \/ CheckIdle \/ HandleEvent \/ Unplug \/ Replug

SpecPort == InitPort /\ [][NextPort]_vars

\* the signals an agent leaves in the signal file
SignalHost ==
    [dts |-> {7, 70, 700}, gaps |-> {7}, names |-> {}, lines |-> {},
     updates |-> WatchSteps, cmds |-> WatchEvents,
     config |-> [timeouts |-> DEFAULT_TIMEOUTS,
                 phrases |->
                    [waiting |-> <<"Ready for the whistle">>,
                     idle |-> <<"The first ninety minutes are the most important">>]],
     signals |-> [state : {"coding", "thinking", "idle", "unknown_state"},
                  detail : {"", "Writing tests"}]]

InitSignal ==
    /\ host = SignalHost
    /\ now = 0
    /\ eyes = NoEyes
    /\ ticker = NoTicker
    /\ display = ST7789
    /\ watcher = ActivityWatcher(host.config, 1)
    /\ gateway = NoGateway
    /\ serial = NoSerial
    /\ call = [op |-> "init", arg |-> Event("", "")]
    /\ cmds = 0
    /\ ticks = 0

\* the signal file holds a fresh signal: _handle_signal(sig)
HandleSignal ==
    /\ watcher.started
    /\ ticks < host.updates
    /\ cmds < host.cmds
    /\ \E dt \in host.gaps, sig \in host.signals :
          /\ \E w \in { handle_signal(called(watcher, dt), sig) } :
                watcher' = IF w.sends # <<>>
                           THEN [w EXCEPT !.idle_writes = <<>>] ELSE w
          /\ call' = [op |-> "signal", arg |-> sig]
    /\ ticks' = ticks + 1
    /\ cmds' = cmds + 1
    /\ UNCHANGED <<eyes, now, host, ticker, display, gateway, serial>>

\* the log is silent: signals and idle checks
NextSignal == Start \/ CheckIdle \/ HandleSignal

\* the signal writer's world: the seconds between two iterations of the loop
\* (0: the next iteration within the same second, as after the 0.15 s sleep
\* or after `continue`), the lines the two logs bring, the process id and
\* the CPU usage (tenths of a percent) the gateway is found with, and the
\* signals that other programs write to the status file
GatewayHost ==
    [dts |-> {0, 5, 16}, names |-> {}, lines |-> {},
     updates |-> GatewaySteps, cmds |-> GatewayWrites,
     logs |-> { <<{}, {}>>,
                <<{"[tools] write"}, {}>>,
                <<{"[tools] exec", "web_search"}, {"[tools] cron"}>> },
     processes |-> { <<0, 0>>, <<4242, 5>>, <<4242, 6>> },
     signals |-> { <<"coding", "Fixing the bug">>, <<"thinking", "Working">> }]

\* the time.time() at which main() starts: later than any of the timeouts
\* after the 0 its timers start with
started == 100

InitGateway ==
    /\ host = GatewayHost
    /\ now = 0
    /\ eyes = NoEyes
    /\ ticker = NoTicker
    /\ display = ST7789
    /\ watcher = NoWatcher
    /\ gateway = GatewayWriter(started)
    /\ serial = NoSerial
    /\ call = [op |-> "init", arg |-> ""]
    /\ cmds = 0
    /\ ticks = 0

\* one iteration of the loop of main(), dt seconds after the previous one
Iterate ==
    \E dt \in host.dts, log \in host.logs, process \in host.processes :
        /\ ticks < host.updates
        /\ gateway' = main([gateway EXCEPT !.clock = @ + dt],
                           log[1], log[2], process[1], process[2])
        /\ call' = [op |-> "main", arg |-> ""]
        /\ ticks' = ticks + 1
        /\ UNCHANGED <<eyes, now, cmds, host, ticker, display, watcher, serial>>

\* another program (write_status.sh) writes its signal to the status file
WriteStatus ==
    \E signal \in host.signals :
        /\ cmds < host.cmds
        /\ gateway' = [gateway EXCEPT
                          !.file = Signal("other", signal[1], signal[2],
                                          gateway.clock)]
        /\ call' = [op |-> "write_status", arg |-> signal[2]]
        /\ cmds' = cmds + 1
        /\ UNCHANGED <<eyes, now, ticks, host, ticker, display, watcher, serial>>

NextGateway == Iterate \/ WriteStatus

SpecWatcher == InitWatcher /\ [][NextWatcher]_vars

SpecSignal == InitSignal /\ [][NextSignal]_vars

SpecGateway == InitGateway /\ [][NextGateway]_vars

\* the main loop calls eyes.update() in every iteration
SpecBlink == InitBlink /\ [][Next]_vars /\ WF_vars(Update)

SpecEase == InitEase /\ [][Next]_vars /\ WF_vars(Update)

\* the main loop calls eyes.update() in every iteration, for ever
SpecAsleep == InitAsleep /\ [][Next]_vars /\ WF_vars(Update)

----------------------------------------------------------------------------
(* Properties *)

\* C1: eyelid easing never overshoots.  The eyelid level is within 0..100 in
\* every state, and every update() call leaves it between its old value and
\* the target (never past the target, never away from it), at most
\* lid_speed away from its old value.
EyelidStep ==
    LET c == eyes.eyelid_pct
        target == eyes.target_lid
        c2 == eyes'.eyelid_pct
    IN  /\ c2 \in 0..100
        /\ call'.op = "update" =>
             /\ c <= target => (c <= c2 /\ c2 <= target /\ c2 - c <= eyes.lid_speed)
             /\ c >= target => (target <= c2 /\ c2 <= c /\ c - c2 <= eyes.lid_speed)

EyelidNeverOvershoots == (eyes.eyelid_pct \in 0..100) /\ [][EyelidStep]_vars

\* C1 witness: a step shorter than the rate, clamped at the target (the happy
\* face at 30 told to focus: 28, 26, then 25)
EyelidClampedStep ==
    /\ call.op = "update" /\ Acted(eyes, "_update_eyelid")
    /\ eyes.happy_squint = 30 /\ eyes.lid_speed = 2
    /\ eyes.target_lid = 25 /\ eyes.eyelid_pct = 25

\* C2: the blink state only changes along Idle -> Closing-1 -> Closing-2 ->
\* Closing-3 -> Closed -> Idle, one stage per change; a stage that is entered
\* records the time of entry; a Closing stage is left only 15 ms or more
\* after it was entered and Closed only 60 ms or more after.
BlinkStep ==
    LET from == eyes.blink_state
        to == eyes'.blink_state
        elapsed == (now' - eyes.blink_time) % TicksPeriod
    IN  from # to =>
            /\ to = (from + 1) % 5
            /\ to # IDLE => eyes'.blink_time = now'
            /\ from \in {CLOSE_1, CLOSE_2, CLOSE_3} => elapsed >= 15
            /\ from = CLOSED => elapsed >= 60

BlinkStagesInOrder == [][BlinkStep]_vars

\* C2 witness: a blink ran through all its stages and reopened the eyes
BlinkCompleted ==
    /\ call.op = "update" /\ eyes.blink_state = IDLE
    /\ Len(eyes.trace) > 0 /\ eyes.trace[1] = "_blit_both"

BlinkHasPriority ==
    [][ (call'.op = "update" /\ eyes.blink_state # IDLE) =>
            /\ ~Acted(eyes', "_update_eyelid")
            /\ ~Acted(eyes', "look_at")
            /\ ~Acted(eyes', "_rebuild_base") ]_vars

\* C5: in one update() call at most one stage writes to the display and the
\* composited buffer is blitted at most once: a call in which the blink
\* stage drew or re-blitted takes no eyelid step and rebuilds nothing, and a
\* call in which the eyelid stepped moves no gaze.
Blits(s) == Cardinality({ i \in 1..Len(s.trace) : s.trace[i] = "_blit_both" })

BlinkStageWrote(s) ==
    /\ Len(s.trace) > 0
    /\ s.trace[1] \in {"_draw_eyelids", "fill_rect", "_blit_both"}

OneStagePerUpdate ==
    call.op = "update" =>
        /\ Blits(eyes) <= 1
        /\ BlinkStageWrote(eyes) =>
              ~Acted(eyes, "_update_eyelid") /\ ~Acted(eyes, "_rebuild_base")
        /\ Acted(eyes, "_update_eyelid") => ~Acted(eyes, "look_at")

\* C6: after set_expression('asleep') and no further command, the update()
\* calls bring the eyelid level to exactly 100, and from then on it stays
\* 100, the blink state stays Idle and no update() starts a blink.
AsleepCloses ==
    (eyes.expression = EXPR_ASLEEP) ~>
        [](/\ eyes.eyelid_pct = 100
           /\ eyes.blink_state = IDLE
           /\ ~Acted(eyes, "_start_blink"))

\* C6 witness: asleep, fully closed, and update() is still being called
AsleepAndClosed ==
    /\ eyes.expression = EXPR_ASLEEP /\ eyes.eyelid_pct = 100
    /\ call.op = "update" /\ eyes.trace = <<>>

\* C7, as claimed: every set_expression with a vocabulary name leaves the
\* target at the listed value (normal 0, sleepy 45, asleep 100, focused 25,
\* reading 10, searching 0, thinking 0, terminal 20, stressed 0, happy and
\* done the configured squint), and a second call with the same name leaves
\* target and rate as the first call left them.
ClaimedTarget(name, squint) ==
    CASE name = "normal" -> 0
      [] name = "sleepy" -> 45
      [] name = "asleep" -> 100
      [] name = "focused" -> 25
      [] name = "reading" -> 10
      [] name = "searching" -> 0
      [] name = "thinking" -> 0
      [] name = "terminal" -> 20
      [] name = "stressed" -> 0
      [] name = "happy" -> squint
      [] name = "done" -> IF squint > 0 THEN squint ELSE 0

RetargetStep(Target(_, _)) ==
    (call'.op = "set_expression" /\ call'.arg \in Vocabulary) =>
        /\ eyes'.target_lid = Target(call'.arg, eyes.happy_squint)
        /\ (call.op = "set_expression" /\ call.arg = call'.arg) =>
              /\ eyes'.target_lid = eyes.target_lid
              /\ eyes'.lid_speed = eyes.lid_speed

RetargetsAsClaimed == [][RetargetStep(ClaimedTarget)]_vars

\* C7, amended: the same, with normal retargeting to the configured squint
\* when one is configured (and to 0 otherwise), like done.
AmendedTarget(name, squint) ==
    IF name = "normal"
    THEN (IF squint > 0 THEN squint ELSE 0)
    ELSE ClaimedTarget(name, squint)

RetargetsToDocumentedValue == [][RetargetStep(AmendedTarget)]_vars

\* C7 witness: on the happy face, sleepy and then normal were set in a row
\* (the gaze still looks down from sleepy) and the target is the squint
NormalAfterSleepy ==
    /\ cmds = 2 /\ ticks = 0
    /\ call = [op |-> "set_expression", arg |-> "normal"]
    /\ eyes.pupil_offset_y = 20
    /\ eyes.happy_squint = 30 /\ eyes.target_lid = 30

\* C8: a name outside the vocabulary acts as normal.  In every reachable
\* state set_expression with such a name gives the state that
\* set_expression('normal') gives there, and after a call with such a name
\* the expression, target and rate are those of normal.
UnknownActsAsNormal ==
    /\ \A name \in OtherNames, d \in Dice :
          set_expression(eyes, d, name) = set_expression(eyes, d, "normal")
    /\ (call.op = "set_expression" /\ call.arg \in OtherNames) =>
          /\ eyes.lid_speed = 3
          /\ eyes.target_lid = eyes.happy_squint
          /\ eyes.expression =
                (IF eyes.happy_squint > 0 THEN EXPR_HAPPY ELSE EXPR_NORMAL)

\* C8 witness: 'quizzical' arrived in the middle of a blink of the happy face
UnknownDuringBlink ==
    /\ call = [op |-> "set_expression", arg |-> "quizzical"]
    /\ eyes.blink_state # IDLE
    /\ eyes.expression = EXPR_HAPPY

\* C9, as claimed: set_expression with an upper-case or mixed-case spelling
\* has the effect of the lower-case name on expression, target, rate and gaze.
SameEffect(a, b) ==
    /\ a.expression = b.expression
    /\ a.target_lid = b.target_lid
    /\ a.lid_speed = b.lid_speed
    /\ a.pupil_offset_x = b.pupil_offset_x
    /\ a.pupil_offset_y = b.pupil_offset_y

LowerCaseOf(name) ==
    CASE name = "ASLEEP" -> "asleep"
      [] name = "Sleepy" -> "sleepy"
      [] name = "asleep" -> "asleep"
      [] name = "quizzical" -> "quizzical"

SetExpressionStep ==
    /\ call'.op \in {"set_expression", "E:"} =>
          /\ eyes'.eyelid_pct = eyes.eyelid_pct
          /\ eyes'.blink_state = eyes.blink_state
          /\ ~Acted(eyes', "_blit_both") /\ ~Acted(eyes', "_apply_eyelid")
    /\ eyes'.eyelid_pct # eyes.eyelid_pct => call'.op = "update"

SetExpressionOnlyRetargets == [][SetExpressionStep]_vars

\* C10 witness: a command that arrived during a blink moved the target away
\* from the level
RetargetedDuringBlink ==
    /\ call.op = "set_expression"
    /\ eyes.blink_state = CLOSE_2
    /\ eyes.target_lid # eyes.eyelid_pct

\* C11: gaze offsets stay in bounds.  In every reachable state the gaze
\* offset lies within -12..12 by -20..20, and from that state look_at(x, y),
\* for every x and y in [-1, 1] (in tenths), sets the offset to 12x and 20y
\* truncated toward zero (one value, fixed by the input alone, whatever the
\* state was), and within those bounds.
Abs(n) == IF n < 0 THEN -n ELSE n

\* o is n/10 truncated toward zero
TruncatedTenths(o, n) ==
    /\ 10 * Abs(o) <= Abs(n) /\ Abs(n) - 10 * Abs(o) < 10
    /\ o * n >= 0

InGazeBounds(s) ==
    s.pupil_offset_x \in -12..12 /\ s.pupil_offset_y \in -20..20

\* the inputs tried: the centre, the four corners, and inputs whose products
\* 12x and 20y are and are not whole numbers
GazeInputs == { <<0, 0>>, <<10, 10>>, <<-10, -10>>, <<-10, 10>>, <<10, -10>>,
                <<1, -1>>, <<-9, 5>>, <<5, 9>> }

GazeInBounds ==
    /\ InGazeBounds(eyes)
    /\ \A in \in GazeInputs :
          \A here \in { look_at(eyes, in[1], in[2]) } :
          /\ TruncatedTenths(here.pupil_offset_x, 12 * in[1])
          /\ TruncatedTenths(here.pupil_offset_y, 20 * in[2])
          /\ InGazeBounds(here)

\* C11 witness: an update() of the thinking eyes moved the gaze to the upper
\* bound
GazeAtBound ==
    /\ call.op = "update" /\ Acted(eyes, "look_at")
    /\ eyes.expression = EXPR_THINKING
    /\ eyes.pupil_offset_y = -20

\* C12: rounded-corner invariant.  After every base rebuild, whatever gaze
\* offset the base buffer was built with, every pixel offset of the corner
\* mask holds the background colour (black), never the sclera, iris, pupil
\* or highlight.
CornersStayBlack ==
    Acted(eyes, "_rebuild_base") =>
        \A offset \in corner_mask : base_buf(eyes, offset) = "black"

\* C13: dirty check.  An update() call rebuilds the base buffer only when
\* the gaze offset it ends with differs from the offset recorded at the last
\* blit (the blit that ends a blink in the same call included).  No
\* set_expression call rebuilds or blits; and a set_expression('normal')
\* made while the engine is settled in normal (eyelid at target, no redraw
\* pending) leaves it settled, so that the next update() rebuilds or blits
\* only if it would have done so without the call.
SettledInNormal(s) ==
    /\ s.expression = (IF s.happy_squint > 0 THEN EXPR_HAPPY ELSE EXPR_NORMAL)
    /\ s.target_lid = s.happy_squint /\ s.eyelid_pct = s.target_lid
    /\ s.pupil_offset_x = s.prev_offset_x /\ s.pupil_offset_y = s.prev_offset_y

DirtyCheckStep ==
    LET recorded == IF eyes.blink_state = CLOSED /\ eyes'.blink_state = IDLE
                    THEN <<eyes.pupil_offset_x, eyes.pupil_offset_y>>
                    ELSE <<eyes.prev_offset_x, eyes.prev_offset_y>>
    IN  /\ (call'.op = "update" /\ Acted(eyes', "_rebuild_base")) =>
              <<eyes'.pupil_offset_x, eyes'.pupil_offset_y>> # recorded
        /\ call'.op \in {"set_expression", "E:"} =>
              ~Acted(eyes', "_rebuild_base") /\ ~Acted(eyes', "_blit_both")
        /\ (call' = [op |-> "set_expression", arg |-> "normal"]
               /\ SettledInNormal(eyes)) =>
              /\ SettledInNormal(eyes')
              /\ \A dt \in host.dts, d \in Dice :
                    LET t == (now + dt) % TicksPeriod
                        with == update(eyes', t, d)
                        without == update(eyes, t, d)
                    IN  /\ Acted(with, "_rebuild_base") => Acted(without, "_rebuild_base")
                        /\ Blits(with) <= Blits(without)

DirtyCheckHonored == [][DirtyCheckStep]_vars

\* C13 witness: the second of two commands, after some ticks, was
\* set_expression('normal') on the engine settled in normal
RepeatedNormal ==
    /\ cmds = 2 /\ ticks > 0
    /\ call = [op |-> "set_expression", arg |-> "normal"]
    /\ eyes.lid_speed = 3 /\ eyes.blink_state = IDLE
    /\ SettledInNormal(eyes)

\* C14: reading sweep shape.  While the expression is reading the sweep
\* position is within -10..10; an update() that takes a reading step moves
\* the position by 2 in the current direction, and the direction reverses in
\* that step exactly when the new position is a bound (10 or -10); the gaze
\* x offset is the position's offset, so from one step of the sweep to the
\* next it rises while the direction is left-to-right and falls while it is
\* right-to-left.  An update() without a reading step leaves position and
\* direction alone.
SweepOffset(pos) == TruncDiv(12 * pos, 10)

ReadingStep ==
    (call'.op = "update" /\ eyes.expression = EXPR_READING) =>
        IF Acted(eyes', "look_at")
        THEN /\ eyes'.read_pos = eyes.read_pos + 2 * eyes.read_dir
             /\ (eyes'.read_dir # eyes.read_dir) <=> (eyes'.read_pos \in {-10, 10})
             /\ eyes'.pupil_offset_x = SweepOffset(eyes'.read_pos)
             /\ eyes.pupil_offset_x = SweepOffset(eyes.read_pos) =>
                   IF eyes.read_dir = 1
                   THEN eyes'.pupil_offset_x > eyes.pupil_offset_x
                   ELSE eyes'.pupil_offset_x < eyes.pupil_offset_x
        ELSE /\ eyes'.read_pos = eyes.read_pos
             /\ eyes'.read_dir = eyes.read_dir

ReadingSweepShape ==
    /\ [](eyes.expression = EXPR_READING =>
            eyes.read_pos \in -10..10 /\ eyes.read_dir \in {-1, 1})
    /\ [][ReadingStep]_vars

\* C14 witness: the sweep has gone to the right-hand bound and all the way
\* back, and turns at the left-hand bound
SweepTurnedLeft ==
    /\ call.op = "update" /\ Acted(eyes, "look_at")
    /\ eyes.expression = EXPR_READING
    /\ eyes.read_pos = -10 /\ eyes.read_dir = 1 /\ eyes.pupil_offset_x = -12

\* C15: reading sweep timing is asymmetric in every reachable state: while
\* the direction is left-to-right the step interval is the slow one (200 ms)
\* and while it is right-to-left it is the fast one (80 ms).
SweepTimingAsymmetric ==
    /\ eyes.read_dir = 1 => eyes.read_speed = 200
    /\ eyes.read_dir = -1 => eyes.read_speed = 80

\* C16: the current expression determines the blink-interval range.  Every
\* blink interval scheduled while an expression is in effect, the one drawn
\* by set_expression and the one drawn when a blink completes, lies in the
\* range of that expression: stressed 1500..3000, searching 2000..4000,
\* thinking 4000..8000, focused 5000..10000, sleepy and terminal 6000..12000,
\* the others the configured default range.
BlinkRange(s) ==
    CASE s.expression = EXPR_STRESSED  -> 1500..3000
      [] s.expression = EXPR_SEARCHING -> 2000..4000
      [] s.expression = EXPR_THINKING  -> 4000..8000
      [] s.expression = EXPR_FOCUSED   -> 5000..10000
      [] s.expression \in {EXPR_SLEEPY, EXPR_TERMINAL} -> 6000..12000
      [] OTHER -> s.blink_min..s.blink_max

BlinkIntervalStep ==
    /\ (call'.op = "update" /\ eyes.blink_state = CLOSED
           /\ eyes'.blink_state = IDLE) =>
          eyes'.next_blink \in BlinkRange(eyes')
    /\ (call'.op \in {"set_expression", "E:"}
           /\ eyes'.next_blink # eyes.next_blink) =>
          eyes'.next_blink \in BlinkRange(eyes')

BlinkIntervalFollowsExpression == [][BlinkIntervalStep]_vars

\* C17: a display write failure does not affect the animation state.  An
\* update() call in which a display write raises leaves the blink stage and
\* its timers, the eyelid level and target, and the gaze bookkeeping (the
\* offset and the offset recorded at the last blit) as the same call would
\* have left them had the write succeeded.
SameAnimationState(a, b) ==
    /\ a.blink_state = b.blink_state /\ a.blink_time = b.blink_time
    /\ a.last_blink = b.last_blink /\ a.next_blink = b.next_blink
    /\ a.eyelid_pct = b.eyelid_pct /\ a.target_lid = b.target_lid
    /\ a.pupil_offset_x = b.pupil_offset_x /\ a.pupil_offset_y = b.pupil_offset_y
    /\ a.prev_offset_x = b.prev_offset_x /\ a.prev_offset_y = b.prev_offset_y

WriteFailureStep ==
    call' = [op |-> "update", arg |-> "ERR"] =>
        \E d \in Dice : SameAnimationState(eyes', update(eyes, now', d))

WriteFailureKeepsState == [][WriteFailureStep]_vars

\* C18: configuration errors are recovered per field.  Constructing the
\* engine never fails, whatever fields are missing and whatever a colour
\* string holds; the engine that is constructed has, for every field, the
\* configured value or, when the field is missing or does not parse, its
\* default (iris 0x2288FF, eyebrow colour 0xFFFFFF, squint 0, blink interval
\* 3000..6000).
ConfigErrorsRecovered ==
    /\ call.op # "crash"
    /\ eyes # NoEyes =>
          LET cfg == host.config
              iris == IF iris_color(cfg) = ValueError THEN DEFAULT_IRIS
                      ELSE iris_color(cfg)
          IN  /\ eyes.c_iris = to565(iris)
              /\ eyes.has_eyebrows = ("eyebrows" \in DOMAIN cfg)
              /\ eyes.happy_squint = (IF "happySquint" \in DOMAIN cfg
                                      THEN cfg["happySquint"] ELSE 0)
              /\ eyes.blink_min = 3000 /\ eyes.blink_max = 6000

\* C19: elapsed-time comparisons tolerate counter wraparound.  With the
\* time since a stored timestamp counted on the wrapping tick counter, an
\* update() call advances a blink stage whose dwell (15 ms, 60 ms when
\* Closed) has elapsed, and starts a blink when the eyes are idle with the
\* eyelid at its target, not asleep and closed, and the blink interval has
\* elapsed, wherever the counter wrapped.
ElapsedStep ==
    LET since(stamp) == (now' - stamp) % TicksPeriod IN
    call'.op = "update" =>
        /\ (eyes.blink_state \in {CLOSE_1, CLOSE_2, CLOSE_3}
               /\ since(eyes.blink_time) >= 15) =>
              eyes'.blink_state = eyes.blink_state + 1
        /\ (eyes.blink_state = CLOSED /\ since(eyes.blink_time) >= 60) =>
              eyes'.last_blink = now'
        /\ (eyes.blink_state = IDLE /\ eyes.eyelid_pct = eyes.target_lid
               /\ ~(eyes.expression = EXPR_ASLEEP /\ eyes.eyelid_pct >= 100)
               /\ since(eyes.last_blink) > eyes.next_blink) =>
              eyes'.blink_state = CLOSE_1

ElapsedTimeToleratesWrap == [][ElapsedStep]_vars

\* C20: no buffer is replaced after construction.  In every reachable state
\* the base buffer, the composited buffer, the black row and the corner mask
\* are the objects __init__ made, the two pixel buffers have the size they
\* were allocated with (2 bytes per pixel of the eye), the black row is one
\* row long, and the corner mask has the 252 offsets _build_corner_mask
\* returned (no method writes to it).
BuffersKept ==
    /\ eyes.objects = [corner_mask |-> 1, base_buf |-> 2, eye_buf |-> 3,
                       black_row |-> 4]
    /\ eyes.base_buf_len = 2 * 70 * 80 /\ eyes.eye_buf_len = 2 * 70 * 80
    /\ eyes.black_row_len = 2 * 70
    /\ eyes.corner_mask_len = 252

\* C20 witness: an update() rebuilt the base buffer with the gaze moved and
\* composed it under a lowered eyelid: the contents of both buffers differ
\* from those at construction
BufferContentsChanged ==
    /\ call.op = "update"
    /\ Acted(eyes, "_rebuild_base") /\ Acted(eyes, "_apply_eyelid")
    /\ eyes.base_y # 0 /\ eyes.buf_y = eyes.base_y /\ eyes.buf_lid > 0

CommandDispatch ==
    [][call'.op = "loop" /\ call'.arg # NoLine =>
        \E d \in Dice :
            LET line == call'.arg
                dev == [eyes |-> [eyes EXCEPT !.trace = <<>>],
                        ticker |-> [ticker EXCEPT !.trace = <<>>],
                        display |-> [display EXCEPT !.calls = <<>>]]
                quiet == iteration(dev, now, d, NoLine)
                name == lower(strip(line.tail))
            IN  CASE line.head = "E:" ->
                        /\ eyes' = update(set_expression(dev.eyes, d, name), now, d)
                        /\ ticker'.hi_lo = to565(ticker_colors(name))
                        /\ name \notin {"waiting", "idle", "sleepy", "asleep",
                                        "stressed", "focused", "terminal",
                                        "thinking", "searching", "reading"}
                              => ticker'.hi_lo = <<255, 255>>
                  [] line.head \in {"S:", "CLEAR", "SCREEN:"} ->
                        /\ eyes' = quiet.eyes
                        /\ eyes'.expression = eyes.expression
                        /\ eyes'.target_lid = eyes.target_lid
                  [] OTHER ->
                        /\ eyes' = quiet.eyes
                        /\ ticker' = quiet.ticker
                        /\ display' = quiet.display]_vars

\* an 'E:' line with padding and capitals was dispatched: the face is sleepy
\* and the ticker has the colour of 'sleepy'
SleepyDispatched ==
    /\ call.op = "loop"
    /\ call.arg = Line("E:", "Sleepy ")
    /\ eyes.expression = EXPR_SLEEPY
    /\ ticker.hi_lo = to565(2263295)

\* C23: watcher de-duplication.  Every send_status and send_expression call
\* writes its line to the serial port exactly when its argument differs from
\* the argument of the previous call of the same method; the first call of a
\* method has no previous call and writes.
WritesExactlyNewValues ==
    \A i \in 1..Len(watcher.sends) :
        LET send == watcher.sends[i] IN
        send.wrote <=> send.arg # send.previous

\* C24: idle progression.  With the timeouts in their order, the expression
\* and screen lines that the _check_idle calls have written since the last
\* event other than heartbeat and slow_listener come in the order waiting,
\* idle, sleepy, asleep, screen dim, and none of them comes twice.
IdleProgression ==
    LET step(line) ==
            CASE line = <<"E:", "waiting">> -> 1
              [] line = <<"E:", "idle">> -> 2
              [] line = <<"E:", "sleepy">> -> 3
              [] line = <<"E:", "asleep">> -> 4
              [] line = <<"SCREEN:", "DIM:10">> -> 5
              [] OTHER -> 0
        sent_idle == watcher.idle_writes
    IN  \A i \in 1..Len(sent_idle) :
            /\ step(sent_idle[i]) > 0
            /\ \A j \in 1..Len(sent_idle) :
                  i < j => step(sent_idle[i]) < step(sent_idle[j])

\* the whole progression was sent, over several _check_idle calls
WholeProgression ==
    /\ call.op = "check_idle"
    /\ watcher.idle_writes = << <<"E:", "waiting">>, <<"E:", "idle">>,
                                <<"E:", "sleepy">>, <<"E:", "asleep">>,
                                <<"SCREEN:", "DIM:10">> >>
    /\ watcher.written = << <<"SCREEN:", "DIM:10">> >>

\* C25: heartbeat and slow_listener events only refresh the activity timer.
\* Handling one writes nothing to the serial port and changes no field of
\* the watcher but last_activity, which becomes the time of the call:
\* expression, status, the four idle flags, screen_off, the work timer and
\* the tool streak stay as they were.
HeartbeatOnlyRefreshes ==
    [][call'.op = "event" /\ call'.arg.event \in {"heartbeat", "slow_listener"} =>
        /\ watcher'.written = <<>>
        /\ watcher'.sends = <<>>
        /\ watcher'.last_activity = watcher'.clock
        /\ watcher' = [watcher EXCEPT !.clock = watcher'.clock,
                                      !.last_activity = watcher'.clock,
                                      !.written = <<>>, !.sends = <<>>]]_vars

\* a heartbeat arrived while the face was asleep and the screen dimmed, a
\* tool streak and the work timer running
HeartbeatWhileAsleep ==
    /\ call.op = "event"
    /\ call.arg.event = "heartbeat"
    /\ watcher.asleep_sent /\ watcher.sleepy_sent
    /\ watcher.screen_off
    /\ watcher.current_expr = "asleep"
    /\ watcher.last_activity = watcher.clock

\* C26: wake from sleep.  An event other than heartbeat and slow_listener
\* handled while sleepy_sent or asleep_sent is set clears both flags and
\* writes 'E:normal', whatever the de-duplication cache holds; when the
\* screen was dimmed, 'SCREEN:ON' is the first line written, 'E:normal' the
\* second, every line of the event itself comes after them, and screen_off
\* is cleared.
WakesFromSleep ==
    [][/\ call'.op = "event"
       /\ call'.arg.event \notin {"heartbeat", "slow_listener"}
       /\ watcher.sleepy_sent \/ watcher.asleep_sent
       =>
       LET lines == watcher'.written
           first == IF watcher.screen_off THEN 2 ELSE 1
       IN  /\ ~watcher'.sleepy_sent /\ ~watcher'.asleep_sent
           /\ ~watcher'.screen_off
           /\ Len(lines) >= first
           /\ lines[first] = <<"E:", "normal">>
           /\ watcher.screen_off => lines[1] = <<"SCREEN:", "ON">>
           /\ \A i \in 1..Len(lines) :
                 i > first => lines[i] \notin { <<"SCREEN:", "ON">>,
                                               <<"E:", "normal">> }]_vars

\* a Discord message woke the watcher from its sleep behind a dimmed screen:
\* screen on, face normal, then the thinking face of the event
WokenByMessage ==
    /\ call.op = "event"
    /\ call.arg.event = "discord_incoming"
    /\ watcher.written = << <<"SCREEN:", "ON">>, <<"E:", "normal">>,
                            <<"E:", "thinking">>, <<"S:", "Reading message...">> >>

\* C27: a tool_start event for the tool 'process' is skipped.  In every
\* watcher state, handling it writes nothing to the serial port.
ProcessToolWritesNothing ==
    [][call'.op = "event" /\ call'.arg = Event("tool_start", "process") =>
        watcher'.written = <<>>]_vars

\* the work timer and the face of a tool_start, for the tools not in aside:
\* the timer starts at the first event other than heartbeat and slow_listener
\* after it was reset and goes back to 0 only in the _check_idle call in
\* which the waiting timeout fires; the last expression a tool_start sends is
\* 'stressed' when more than SUSTAINED_WORK_THRESHOLD seconds have passed
\* since the timer started, and otherwise the tool's mapped expression
\* (terminal for exec, composing for message, normal for a tool without one)
SustainedWork(aside) ==
    LET info == call'.arg
        active == /\ call'.op = "event"
                  /\ info.event \notin {"heartbeat", "slow_listener"}
        since == IF watcher.work_start = 0 THEN watcher'.clock
                 ELSE watcher.work_start
        faces_sent == SelectSeq(watcher'.sends, LAMBDA send : send.method = "expr")
        mapped == CASE info.tool = "exec" -> "terminal"
                    [] info.tool = "message" -> "composing"
                    [] OTHER -> "normal"
    IN  /\ active => watcher'.work_start = since
        /\ ~active /\ watcher'.work_start # watcher.work_start =>
              /\ call'.op = "check_idle"
              /\ watcher'.work_start = 0
              /\ ~watcher.waiting_sent /\ watcher'.waiting_sent
        /\ active /\ info.event = "tool_start" /\ info.tool \notin aside =>
              /\ faces_sent # <<>>
              /\ faces_sent[Len(faces_sent)].arg =
                    IF watcher'.clock - since > SUSTAINED_WORK_THRESHOLD
                    THEN "stressed" ELSE mapped

\* C28 as claimed: every tool_start (the skipped tool 'process' aside)
\* handled more than SUSTAINED_WORK_THRESHOLD seconds after the work timer
\* started sends 'stressed' instead of the tool's mapped expression.
SustainedWorkStresses == [][SustainedWork({"process"})]_vars

\* C28 as amended: the same for every tool but 'process' and 'message'; a
\* tool_start for 'message' sends 'composing' however long the work has
\* lasted.
SustainedWorkStressesButMessage ==
    [][/\ SustainedWork({"process", "message"})
       /\ call'.op = "event" /\ call'.arg = Event("tool_start", "message") =>
             \E i \in 1..Len(watcher'.sends) :
                 /\ watcher'.sends[i].method = "expr"
                 /\ watcher'.sends[i].arg = "composing"
                 /\ \A j \in 1..Len(watcher'.sends) :
                       j > i => watcher'.sends[j].method = "status"]_vars

\* a command was run after more than ten minutes of work: the stressed face
StressedAtWork ==
    /\ call.op = "event"
    /\ call.arg = Event("tool_start", "exec")
    /\ watcher.clock - watcher.work_start > SUSTAINED_WORK_THRESHOLD
    /\ watcher.written[1] = <<"E:", "stressed">>

\* C29: signal handling in the watcher.  _handle_signal for a known state
\* other than idle calls send_expression with the mapped expression and
\* send_status with the detail, and returns True; handling the state and
\* detail of the last handled signal again writes nothing and returns True;
\* idle and an unknown state return False and write nothing, and idle
\* clears the remembered signal.
SignalHandled ==
    [][call'.op = "signal" =>
        LET sig == call'.arg
            known == sig.state \in {"coding", "thinking"}
            again == watcher.last_signal_state = <<sig.state, sig.detail>>
            calls == watcher'.sends
        IN  /\ known /\ ~again =>
                /\ watcher'.returned = "True"
                /\ \E i, j \in 1..Len(calls) :
                      /\ i < j
                      /\ calls[i].method = "expr"
                      /\ calls[i].arg = IF sig.state = "coding" THEN "focused"
                                        ELSE "thinking"
                      /\ calls[j].method = "status"
                      /\ sig.detail # "" => calls[j].arg = sig.detail
                /\ watcher'.last_signal_state = <<sig.state, sig.detail>>
            /\ known /\ again =>
                /\ watcher'.returned = "True"
                /\ watcher'.written = <<>>
                /\ calls = <<>>
            /\ ~known =>
                /\ watcher'.returned = "False"
                /\ watcher'.written = <<>>
            /\ sig.state = "idle" => watcher'.last_signal_state = <<>>]_vars

\* the signal 'coding / Writing tests' came a second time, after the watcher
\* had gone to waiting in between: nothing was written
SameSignalAgain ==
    /\ call.op = "signal"
    /\ call.arg = [state |-> "coding", detail |-> "Writing tests"]
    /\ watcher.last_signal_state = <<"coding", "Writing tests">>
    /\ watcher.current_expr = "waiting"
    /\ watcher.returned = "True"
    /\ watcher.written = <<>>

dwell_calls(ms, dt) == (ms + dt - 1) \div dt

blink_calls(dt) == 3 * dwell_calls(15, dt) + dwell_calls(60, dt)

shortest(dts) == CHOOSE dt \in dts : \A other \in dts : dt <= other

BlinkAlwaysCompletes ==
    /\ [][call'.op \in {"set_expression", "E:"} =>
            eyes'.blink_state = eyes.blink_state]_vars
    /\ (/\ eyes.blink_state # IDLE
        /\ host.updates - ticks >= blink_calls(shortest(host.dts)))
         ~> (eyes.blink_state = IDLE)

\* C31 witness: asleep arrived while a blink was in progress (no blink starts
\* once the expression is asleep), and this update() ended the blink
BlinkCompletedAsleep ==
    /\ call.op = "update" /\ eyes.blink_state = IDLE
    /\ Len(eyes.trace) > 0 /\ eyes.trace[1] = "_blit_both"
    /\ eyes.expression = EXPR_ASLEEP /\ eyes.target_lid = 100

\* C32: eyelid convergence is live.  Whatever expression the host sets, and
\* whether a blink is in progress when the command arrives or becomes due
\* along the way, once no further set_expression is issued and update()
\* keeps being called the eyelid level reaches the target and stays there.
EyelidConverges == <>[](eyes.eyelid_pct = eyes.target_lid)

\* C32 witness: the eyelid went down to the target of sleepy, which the
\* engine is not constructed with, and a blink is in progress at that level
EasedThenBlinking ==
    /\ call.op = "update" /\ eyes.expression = EXPR_SLEEPY
    /\ eyes.eyelid_pct = 45 /\ eyes.target_lid = 45
    /\ eyes.blink_state # IDLE

\* C33: fully asleep is a no-op state.  When the expression is asleep, the
\* eyelid level equals its target of 100 and the blink state is Idle, an
\* update() call leaves every field of the engine (gaze, timers, blink state,
\* eyelid, buffers) as it was, no method of the engine acts and the display
\* receives no call.
FullyAsleep(s) ==
    /\ s.expression = EXPR_ASLEEP
    /\ s.eyelid_pct = 100 /\ s.target_lid = 100
    /\ s.blink_state = IDLE

FullyAsleepStep ==
    FullyAsleep(eyes) /\ call'.op = "update" =>
        /\ [eyes' EXCEPT !.trace = <<>>] = [eyes EXCEPT !.trace = <<>>]
        /\ eyes'.trace = <<>>
        /\ display'.calls = <<>>
        /\ display'.duty = display.duty

FullyAsleepIsNoOp == [][FullyAsleepStep]_vars

\* C33 witness: an update() call found the eyes fully asleep with the blink
\* interval long over, and did nothing
FullyAsleepUpdated ==
    /\ call.op = "update" /\ FullyAsleep(eyes)
    /\ eyes.trace = <<>> /\ display.calls = <<>>
    /\ ticks_diff(now, eyes.last_blink) > eyes.next_blink

\* C34: update() never changes the current expression, the eyelid target or
\* the approach rate: once the engine is constructed only a set_expression
\* call (direct or through an "E:" line) changes any of them; and the
\* eyelid level changes only in the eyelid easing step of update().
UpdateStep ==
    /\ call'.op = "update" =>
          /\ eyes'.expression = eyes.expression
          /\ eyes'.target_lid = eyes.target_lid
          /\ eyes'.lid_speed = eyes.lid_speed
    /\ \/ eyes'.expression # eyes.expression
       \/ eyes'.target_lid # eyes.target_lid
       \/ eyes'.lid_speed # eyes.lid_speed
       => call'.op \in {"set_expression", "E:"}
    /\ eyes'.eyelid_pct # eyes.eyelid_pct =>
          /\ call'.op = "update"
          /\ Acted(eyes', "_update_eyelid")

UpdateKeepsExpression == [][UpdateStep]_vars

\* C34 witness: an update() call moved the eyelid towards the target that
\* set_expression('focused') had set, at the rate it had set
EasingTowardsFocused ==
    /\ call.op = "update" /\ Acted(eyes, "_update_eyelid")
    /\ eyes.expression = EXPR_FOCUSED
    /\ eyes.target_lid = 25 /\ eyes.lid_speed = 2
    /\ eyes.eyelid_pct \in 1..24

\* C35: the rendered gaze matches the gaze state at a blit.  Whenever a call
\* has blitted the composited buffer and reset the dirty check (the offset
\* recorded at the last blit equals the gaze offset), the base buffer and
\* the composited buffer were built with the current gaze offset: a gaze
\* change is never marked clean without a base rebuild.
MarkedClean(s) ==
    /\ s.prev_offset_x = s.pupil_offset_x
    /\ s.prev_offset_y = s.pupil_offset_y

RenderedGazeMatches ==
    Acted(eyes, "_blit_both") /\ MarkedClean(eyes) =>
        /\ eyes.base_x = eyes.pupil_offset_x /\ eyes.base_y = eyes.pupil_offset_y
        /\ eyes.buf_x = eyes.pupil_offset_x /\ eyes.buf_y = eyes.pupil_offset_y

\* C36: the signal writer respects external signals.  While the status file
\* holds a signal written by another program that is fresh (younger than
\* STALE_SIGNAL_AGE at the iteration) and whose detail is neither empty nor
\* 'Working', no iteration of the writer, active or in the grace period,
\* overwrites it with the generic 'thinking / Working' signal, with an
\* empty state or with the state it remembers: the iteration leaves the
\* file as it is, or removes it, or writes the activity it has just found
\* in a log.
ExternalSignal(g, t) ==
    /\ g.file # <<>>
    /\ g.file[1].by = "other"
    /\ t - g.file[1].ts < STALE_SIGNAL_AGE
    /\ g.file[1].detail \notin {"", "Working"}

RespectsStep ==
    call'.op = "main" /\ ExternalSignal(gateway, gateway'.clock) =>
        \/ gateway'.file = gateway.file
        \/ gateway'.file = <<>>
        \/ /\ gateway'.log_activity # <<>>
           /\ gateway'.file = Signal("writer", gateway'.log_activity[1],
                                     gateway'.log_activity[2], gateway'.clock)

RespectsExternalSignals == [][RespectsStep]_vars

\* C37: signal lifetime in the signal writer.  Once activity was detected
\* the status file is present while activity continues and during the grace
\* period (whenever the writer is active there is a file); an iteration
\* removes the file only when it finds no activity and more than IDLE_AFTER
\* seconds have passed since the last detected activity, and a grace-period
\* iteration that finds so much time passed does remove it; after the
\* removal the writer is inactive and remembers no state, and stays so,
\* writing nothing, until an iteration detects activity.
Found(g) == g.log_activity # <<>> \/ g.cpu_active

Memory(g) == <<g.was_active, g.last_state, g.last_detail, g.last_write_time,
               g.last_active_time>>

LifetimeStep ==
    call'.op = "main" =>
        LET idle_secs == gateway'.clock - gateway.last_active_time IN
        /\ gateway.file # <<>> /\ gateway'.file = <<>> =>
              /\ ~Found(gateway')
              /\ idle_secs > IDLE_AFTER
        /\ gateway.was_active /\ ~Found(gateway') =>
              (idle_secs > IDLE_AFTER <=> gateway'.file = <<>>)
        /\ gateway'.did = "remove" =>
              /\ ~gateway'.was_active
              /\ gateway'.last_state = "" /\ gateway'.last_detail = ""
        /\ ~gateway.was_active /\ ~Found(gateway') =>
              /\ Memory(gateway') = Memory(gateway)
              /\ gateway'.file = gateway.file
        /\ Found(gateway') => gateway'.was_active /\ gateway'.file # <<>>

SignalLifetime ==
    /\ [][LifetimeStep]_vars
    /\ [](gateway.was_active => gateway.file # <<>>)
    /\ [](~gateway.was_active =>
            gateway.last_state = "" /\ gateway.last_detail = "")

\* C37 witness: the writer detected activity, kept the file through the
\* grace period and has now removed it, more than IDLE_AFTER seconds after
\* the last activity
SignalRemoved ==
    /\ call.op = "main" /\ gateway.did = "remove"
    /\ gateway.file = <<>> /\ ~gateway.was_active
    /\ gateway.last_active_time >= started
    /\ gateway.clock - gateway.last_active_time > IDLE_AFTER
    /\ gateway.last_write_time > gateway.last_active_time

----------------------------------------------------------------------------
(* C38 *)

\* the lines of a character stream: the non-empty lines whose end arrived,
\* in order, and the characters after the last line end
RECURSIVE lines_of(_, _, _)
lines_of(chars, line, lines) ==
    IF chars = <<>> THEN [ended |-> lines, rest |-> line]
    ELSE IF Head(chars) \in {"\n", "\r"}
    THEN lines_of(Tail(chars), <<>>,
                  IF line = <<>> THEN lines ELSE Append(lines, line))
    ELSE lines_of(Tail(chars), Append(line, Head(chars)), lines)

\* C38: the main loop survives a failing command without corrupting the
\* next one: whether or not _handle_line raised, the lines handed to it are
\* the non-empty lines that arrived, each exactly once and in arrival order,
\* with CR LF as one line end, and the line buffer holds only the characters
\* that arrived after the last line end
LinesDispatchedOnce ==
    LET arrived == lines_of(serial.arrived, <<>>, <<>>) IN
    /\ [i \in 1..Len(serial.dispatched) |-> serial.dispatched[i].line]
          = arrived.ended
    /\ serial.line_buf = arrived.rest

----------------------------------------------------------------------------
(* C39 *)

\* C39: the de-duplication cache of the watcher records only values that
\* reached the device: whatever happens to the serial port, current_status
\* is the last status and current_expr the last expression the device
\* received, so that a value whose write failed is sent again by the next
\* send_status or send_expression call that finds the port working
CacheHoldsDelivered ==
    /\ watcher.current_status = watcher.reached.status
    /\ watcher.current_expr = watcher.reached.expr

----------------------------------------------------------------------------
(* C40 *)

\* waiting < idle <= sleepy <= asleep
ordered(timeouts) ==
    /\ timeouts.waiting < timeouts.idle
    /\ timeouts.idle <= timeouts.sleepy
    /\ timeouts.sleepy <= timeouts.asleep

\* C40: with ordered timeouts the idle flags of the watcher are nested in
\* every state that _check_idle calls and events reach: asleep_sent implies
\* sleepy_sent, sleepy_sent implies idle_sent, idle_sent implies
\* waiting_sent; and after an event other than heartbeat and slow_listener
\* all four flags are false
IdleFlagsNested ==
    ordered(watcher.timeouts) =>
        /\ watcher.asleep_sent => watcher.sleepy_sent
        /\ watcher.sleepy_sent => watcher.idle_sent
        /\ watcher.idle_sent => watcher.waiting_sent
        /\ (call.op = "event"
              /\ call.arg.event \notin {"heartbeat", "slow_listener"})
           => ~(\/ watcher.waiting_sent \/ watcher.idle_sent
                \/ watcher.sleepy_sent \/ watcher.asleep_sent)

\* an event has woken a watcher that had dimmed the screen, after all four
\* flags were set: the screen is lit, the face reset, no flag is left
WokenWithNoFlag ==
    /\ ordered(watcher.timeouts)
    /\ call.op = "event"
    /\ call.arg.event \notin {"heartbeat", "slow_listener"}
    /\ Len(watcher.written) >= 2
    /\ watcher.written[1] = <<"SCREEN:", "ON">>
    /\ watcher.written[2] = <<"E:", "normal">>
    /\ ~watcher.waiting_sent /\ ~watcher.idle_sent
    /\ ~watcher.sleepy_sent /\ ~watcher.asleep_sent

====
